---- MODULE Spec2Model ----
(***************************************************************************)
(* A model of the universal downloader services: the FastAPI service       *)
(* (src/api/main_api.py), the multi-platform API (src/api/main.py) and the *)
(* Flask service (src/app.py).  Each part of the program has its own       *)
(* specification over the shared variables; the parts a specification does *)
(* not exercise stay at their initial values.                              *)
(***************************************************************************)
EXTENDS Integers, Sequences, FiniteSets, TLC

(***************************************************************************)
(* Bounds of the model.                                                    *)
(***************************************************************************)
\* How many times the clock advances in one behaviour.
MaxTicks == 3

\* The amounts by which time.time() advances between two operations: the
\* sums hit both expiry boundaries (300 s and 1800 s) and both sides of each.
TimeSteps == {150, 900}

VARIABLES
    svc,          \* which service this process runs: "main_api" or "flask"
    now,          \* time.time(), in seconds
    ticks,        \* how many times the clock has advanced
    redisCfg,     \* main_api: _redis is not None
    redisFaulty,  \* main_api: whether the Redis server may fail a call
    redisStore,   \* the Redis server: key -> entry written by setex
    infoCache,    \* main_api: _info_cache
    format_cache, \* app.py: format_cache
    lastPut,      \* per cache and key, the latest value written and when
    lastGet,      \* the latest read: what it asked, what it got, and when
    httpx,        \* main_api: the httpx module was importable
    item,         \* the media item behind the page URL
    gen,          \* the generation of upstream URLs the extractor last signed
    deadGens,     \* the generations whose upstream URLs no longer answer 200
    resp,         \* the latest response of an endpoint
    tasks,        \* the task map: _tasks in main_api.py, tasks in app.py
    workers,      \* per task, where its background worker stands
    last_update,  \* per task, when its record was last written: the record's
                  \* 'last_update' in app.py, kept beside the record for main_api
    ffmpeg,       \* the ffmpeg subprocess and body generator of the latest response
    extraction    \* main_api: the requests that await the extractor, the
                  \* extractor calls under way, and what they hold

cacheVars == <<svc, now, ticks, redisCfg, redisFaulty, redisStore, infoCache,
               format_cache, lastPut, lastGet>>

resolveVars == <<httpx, item, gen, deadGens, resp>>

taskVars == <<tasks, workers, last_update>>

\* What the cache operations leave alone.
besideCache == <<resolveVars, taskVars, ffmpeg, extraction>>

vars == <<cacheVars, resolveVars, taskVars, ffmpeg, extraction>>

(***************************************************************************)
(* The resolution caches.                                                  *)
(***************************************************************************)
\* A missing dict entry / Python None.
NoEntry == [present |-> FALSE]
Absent  == [hit |-> FALSE]

\* Default TTL of the main_api cache: CACHE_TTL_MINUTES (30) * 60.
_CACHE_TTL == 30 * 60

\* app.py: formats are cached for five minutes.
CACHE_DURATION == 300

\* The keys the handlers use: "map:<url>", "urls:<id>", "info:<id>".
CacheKeys == {"map:w1", "urls:v1", "info:v1"}

\* The keys the cache specification writes and reads.
SampleKeys == {"map:w1", "urls:v1"}

\* Page URLs given to the Flask service; get_cache_key hashes url|CACHE_VERSION,
\* which is one key per URL.
PageUrls == {"w1", "w2"}

get_cache_key(url) == <<url, "v2">>

\* JSON-serialisable payloads (string-keyed dicts); json.loads(json.dumps(v))
\* gives v back for these.
SampleValues == {[id |-> "v1"], [id |-> "v2"]}

\* The ttl arguments of _cache_set: every caller uses the default.
TtlChoices == {_CACHE_TTL}

\* Whether a Redis call raises: only a faulty server fails.
FailChoices == IF redisFaulty THEN BOOLEAN ELSE {FALSE}

\* The cache as the handlers see it: the Redis server and _info_cache.
CacheState == [redis |-> redisStore, mem |-> infoCache]

\* redis GET: the payload, or None once the key's expiry time is reached.
RedisGet(st, key) ==
    LET e == st.redis[key] IN
    IF e.present /\ now < e.expireAt THEN e ELSE NoEntry

\* The cache after _cache_set(key, value, ttl): Redis when configured and the
\* call succeeds, the in-process dict otherwise.
_cache_set(st, key, value, ttl, fail) ==
    IF redisCfg /\ ~fail
    THEN [st EXCEPT !.redis[key] =
            [present |-> TRUE, value |-> value, ts |-> now,
             expireAt |-> now + ttl]]
    ELSE [st EXCEPT !.mem[key] =
            [present |-> TRUE, value |-> value, expire |-> now + ttl]]

\* The mutant of _cache_get's expiry test: the entry is never treated as
\* expired.
MemExpiredNever(data) == FALSE

\* _cache_get's expiry test on an in-process entry: expire < time.time().
MemExpired(data) == data.expire < now

\* _cache_get(key): what it returns ({"value":..., "ts":...} or None) and the
\* cache it leaves (an expired in-process entry is popped).
_cache_get(st, key, fail) ==
    LET raw == IF redisCfg /\ ~fail THEN RedisGet(st, key) ELSE NoEntry
        data == st.mem[key]
    IN  IF redisCfg /\ raw.present
        THEN [result |-> [hit |-> TRUE, value |-> raw.value, ts |-> raw.ts],
              st |-> st]
        ELSE IF ~data.present THEN [result |-> Absent, st |-> st]
        ELSE IF MemExpired(data)
             THEN [result |-> Absent, st |-> [st EXCEPT !.mem[key] = NoEntry]]
             ELSE [result |-> [hit |-> TRUE, value |-> data.value, ts |-> now],
                   st |-> st]

\* The handlers' writes reach the program's variables.
StoreCache(st) ==
    /\ redisStore' = st.redis
    /\ infoCache' = st.mem

(***************************************************************************)
(* Media items, formats and the extractor (yt-dlp), an opaque collaborator. *)
(***************************************************************************)
\* How many generations of signed upstream URLs the extractor hands out.
MaxGen == 2

\* How many download tasks one behaviour creates, and how many files the
\* format of a task downloads at most (two for "video+audio").
MaxTasks == 2
MaxFiles == 2

TaskIds == 1..MaxTasks

\* A task id without a record, and a task without a worker.
NoTask == [status |-> "absent"]
NoWorker == [pc |-> "none"]

\* None, for a URL.
NoUrl == [fid |-> "", gen |-> 0]

\* The upstream URL of format fid as signed in generation g.
UrlOf(fid, g) == [fid |-> fid, gen |-> g]

\* Candidate formats as yt-dlp describes them ("" stands for a missing field).
F18 == [format_id |-> "18", vcodec |-> "avc1.42001E", acodec |-> "mp4a.40.2",
        ext |-> "mp4", protocol |-> "https", height |-> 360, tbr |-> 500,
        abr |-> 0, filesize |-> 10]
F22 == [format_id |-> "22", vcodec |-> "avc1.64001F", acodec |-> "mp4a.40.2",
        ext |-> "mp4", protocol |-> "https", height |-> 720, tbr |-> 1500,
        abr |-> 0, filesize |-> 30]
F137 == [format_id |-> "137", vcodec |-> "avc1.640028", acodec |-> "none",
         ext |-> "mp4", protocol |-> "https", height |-> 1080, tbr |-> 4000,
         abr |-> 0, filesize |-> 80]
F140 == [format_id |-> "140", vcodec |-> "none", acodec |-> "mp4a.40.2",
         ext |-> "m4a", protocol |-> "https", height |-> 0, tbr |-> 128,
         abr |-> 128, filesize |-> 3]
F251 == [format_id |-> "251", vcodec |-> "none", acodec |-> "opus",
         ext |-> "webm", protocol |-> "https", height |-> 0, tbr |-> 160,
         abr |-> 160, filesize |-> 4]
F95 == [format_id |-> "95", vcodec |-> "avc1.64001F", acodec |-> "mp4a.40.2",
        ext |-> "mp4", protocol |-> "m3u8_native", height |-> 720, tbr |-> 1400,
        abr |-> 0, filesize |-> 0]

\* The items the endpoint specifications start from: an id, the formats, and
\* which format (0: none) the extractor nominates as the top-level "url" of
\* the info dict.  Progressive with audio, video-only with audio, progressive
\* alone, video-only alone, and a full list.
SampleItems == {
    [id |-> "v1", formats |-> <<F18, F140>>, top |-> 0],
    [id |-> "v1", formats |-> <<F137, F140, F251>>, top |-> 0],
    [id |-> "v1", formats |-> <<F137, F140, F251>>, top |-> 1],
    [id |-> "v1", formats |-> <<F18>>, top |-> 1],
    [id |-> "v1", formats |-> <<F137>>, top |-> 0],
    [id |-> "v1", formats |-> <<F95, F18, F22, F137, F140>>, top |-> 0] }

\* str.lower() on the container names that occur.
Lower(str) == IF str = "MP4" THEN "mp4" ELSE str

\* "m3u8" in proto or "hls" in proto, on the protocol names that occur.
IsSegmented(proto) == proto \in {"m3u8", "m3u8_native", "hls"}

\* Python truthiness of a codec field.
Truthy(str) == str # ""

\* _is_progressive_mp4(f)
_is_progressive_mp4(f) ==
    IF f.acodec = "none" \/ f.vcodec = "none" THEN FALSE
    ELSE IF Lower(f.ext) # "mp4" THEN FALSE
    ELSE IF IsSegmented(Lower(f.protocol)) THEN FALSE
    ELSE TRUE

\* list.sort(key=..., reverse=True) for keys that are pairs: descending and
\* stable.  key[i] is the key of seq[i]; an element's place is after every
\* element with a greater key and every earlier element with an equal key.
SortDesc(seq, key) ==
    LET n == Len(seq)
        Greater(a, b) == a[1] > b[1] \/ (a[1] = b[1] /\ a[2] > b[2])
        Before(i) == { j \in 1..n : \/ Greater(key[j], key[i])
                                    \/ key[j] = key[i] /\ j < i }
        Place(i) == Cardinality(Before(i)) + 1
    IN  [k \in 1..n |-> seq[CHOOSE i \in 1..n : Place(i) = k]]

\* The index of the first TRUE of a sequence of booleans, or 0.
FirstIndex(flags) ==
    IF \E i \in 1..Len(flags) : flags[i]
    THEN CHOOSE i \in 1..Len(flags) :
             flags[i] /\ \A j \in 1..(i - 1) : ~flags[j]
    ELSE 0

\* _pick_fast_best_format_id(item): the progressive format of 720p, else
\* 480p, else 360p, else the highest; "" when none is progressive.
_pick_fast_best_format_id(info) ==
    LET unsorted == SelectSeq(info.formats, _is_progressive_mp4)
        progressive == SortDesc(unsorted,
            [i \in 1..Len(unsorted) |-> <<unsorted[i].height, unsorted[i].tbr>>])
        At(t) == FirstIndex([i \in 1..Len(progressive) |->
                                progressive[i].height = t])
    IN  IF progressive = <<>> THEN ""
        ELSE IF At(720) # 0 THEN progressive[At(720)].format_id
        ELSE IF At(480) # 0 THEN progressive[At(480)].format_id
        ELSE IF At(360) # 0 THEN progressive[At(360)].format_id
        ELSE progressive[1].format_id

\* The url of the first format of info whose format_id is fid, or None.
UrlOfFormatId(info, fid) ==
    LET i == FirstIndex([k \in 1..Len(info.formats) |->
                            info.formats[k].format_id = fid])
    IN  IF i = 0 THEN NoUrl ELSE info.formats[i].url

\* _resolve_direct_url(info, format_id)
_resolve_direct_url(info, format_id) ==
    IF UrlOfFormatId(info, format_id) # NoUrl
    THEN UrlOfFormatId(info, format_id)
    ELSE IF format_id = "best"
         THEN LET fid == _pick_fast_best_format_id(info) IN
              IF fid # "" /\ UrlOfFormatId(info, fid) # NoUrl
              THEN UrlOfFormatId(info, fid)
              ELSE info.url
         ELSE NoUrl

\* app.py get_cached_formats: fresh while time.time() - timestamp < CACHE_DURATION.
FormatsFresh(entry) == now - entry.timestamp < CACHE_DURATION

\* ---- actions of the cache specification ----

\* time passes
Tick ==
    /\ ticks < MaxTicks
    /\ \E dt \in TimeSteps : now' = now + dt
    /\ ticks' = ticks + 1
    /\ UNCHANGED <<svc, redisCfg, redisFaulty, redisStore, infoCache,
                   format_cache, lastPut, lastGet>>
    /\ UNCHANGED besideCache

\* a caller writes the main_api cache
CacheSet ==
    /\ svc = "main_api"
    /\ \E key \in SampleKeys, value \in SampleValues, ttl \in TtlChoices,
       fail \in FailChoices :
        /\ StoreCache(_cache_set(CacheState, key, value, ttl, fail))
        /\ lastPut' = [lastPut EXCEPT !["api"][key] =
                [present |-> TRUE, value |-> value, at |-> now, ttl |-> ttl]]
        /\ UNCHANGED <<svc, now, ticks, redisCfg, redisFaulty, format_cache, lastGet>>
        /\ UNCHANGED besideCache

\* a caller reads the main_api cache
CacheGet ==
    /\ svc = "main_api"
    /\ \E key \in SampleKeys, fail \in FailChoices :
        LET got == _cache_get(CacheState, key, fail) IN
        /\ StoreCache(got.st)
        /\ lastGet' = [cache |-> "api", key |-> key, at |-> now,
                       result |-> got.result,
                       put |-> lastPut["api"][key]]
        /\ UNCHANGED <<svc, now, ticks, redisCfg, redisFaulty,
                       format_cache, lastPut>>
        /\ UNCHANGED besideCache

\* app.py cache_formats(url, data)
cache_formats ==
    /\ svc = "flask"
    /\ \E url \in PageUrls, data \in SampleValues :
        /\ format_cache' = [format_cache EXCEPT ![get_cache_key(url)] =
                [present |-> TRUE, data |-> data, timestamp |-> now]]
        /\ lastPut' = [lastPut EXCEPT !["flask"][url] =
                [present |-> TRUE, value |-> data, at |-> now,
                 ttl |-> CACHE_DURATION]]
        /\ UNCHANGED <<svc, now, ticks, redisCfg, redisFaulty, redisStore,
                       infoCache, lastGet>>
        /\ UNCHANGED besideCache

\* app.py get_cached_formats(url)
get_cached_formats ==
    /\ svc = "flask"
    /\ \E url \in PageUrls :
        LET cache_key == get_cache_key(url)
            entry == format_cache[cache_key]
        IN  /\ IF entry.present /\ ~FormatsFresh(entry)
               THEN format_cache' = [format_cache EXCEPT ![cache_key] = NoEntry]
               ELSE UNCHANGED format_cache
            /\ lastGet' = [cache |-> "flask", key |-> url, at |-> now,
                           result |-> IF entry.present /\ FormatsFresh(entry)
                                      THEN [hit |-> TRUE, value |-> entry.data]
                                      ELSE Absent,
                           put |-> lastPut["flask"][url]]
            /\ UNCHANGED <<svc, now, ticks, redisCfg, redisFaulty, redisStore,
                           infoCache, lastPut>>
            /\ UNCHANGED besideCache

NoGet == [cache |-> "none"]

\* No request has been answered yet.
NoResp == [endpoint |-> "none"]

\* The latest response streams from no subprocess.
NoStream == [pc |-> "none"]

\* No request of /api/info.
NoRequest == [pc |-> "none"]

\* No request awaits the extractor and no extractor call is under way.
\*   info:     the /api/info request and where its handler stands
\*   waiting:  /info and /instant requests that wait for the semaphore
\*   running:  those whose extractor call runs in a thread, holding a slot
\*   hung:     those whose extractor call will never return
\*   sync:     the extractor call a streaming handler makes on the event loop
\*   zombies:  extractor threads whose awaiting call has timed out
NoExtraction ==
    [info |-> NoRequest, waiting |-> 0, running |-> 0, hung |-> 0,
     sync |-> "none", zombies |-> 0]

\* The resolution endpoints at rest.
InitResolveIdle ==
    /\ ffmpeg = NoStream
    /\ extraction = NoExtraction
    /\ httpx = TRUE
    /\ item = [id |-> "v1", formats |-> <<F18, F140>>, top |-> 0]
    /\ gen = 1
    /\ deadGens = {}
    /\ resp = NoResp
    /\ tasks = [t \in TaskIds |-> NoTask]
    /\ workers = [t \in TaskIds |-> NoWorker]
    /\ last_update = [t \in TaskIds |-> 0]

InitCacheIdle ==
    /\ now = 0
    /\ ticks = 0
    /\ redisFaulty = FALSE
    /\ redisStore = [k \in CacheKeys |-> NoEntry]
    /\ infoCache = [k \in CacheKeys |-> NoEntry]
    /\ format_cache = [k \in {get_cache_key(u) : u \in PageUrls} |-> NoEntry]
    /\ lastPut = [c \in {"api", "flask"} |->
                    IF c = "api" THEN [k \in CacheKeys |-> NoEntry]
                                 ELSE [u \in PageUrls |-> NoEntry]]
    /\ lastGet = NoGet

\* The caches of a fresh process; REDIS_URL may or may not be configured, and
\* a configured server answers every call.
InitCache ==
    /\ InitCacheIdle
    /\ InitResolveIdle
    /\ \/ svc = "main_api" /\ redisCfg \in BOOLEAN
       \/ svc = "flask" /\ redisCfg = FALSE

NextCache ==
    \/ Tick
    \/ CacheSet
    \/ CacheGet
    \/ cache_formats
    \/ get_cached_formats

SpecCache == InitCache /\ [][NextCache]_vars

Page == "w1"

\* format_id arguments that begin with "mp3_".
Mp3Selectors == {"mp3_192", "mp3_128", "mp3_500", "mp3_5"}

\* The other format_id arguments: "best", ids the items may list, and one
\* that no item lists.
PlainSelectors == {"best", "18", "137", "299"}

Selectors == PlainSelectors \cup Mp3Selectors

\* The format_id arguments the model gives the direct endpoints and
\* /api/stream_mp3.
DirectSelectors == PlainSelectors \cup {"mp3_192"}
TranscodeSelectors == Mp3Selectors \cup {"best"}

\* format_id.startswith("mp3_")
StartsWithMp3(format_id) == format_id \in Mp3Selectors

\* The text after "mp3", "mp3_" or "mp3-" as decimal digits; <<>> when the
\* text does not begin that way.
DigitsAfterMp3(format_id) ==
    CASE format_id = "mp3_192" -> <<1, 9, 2>>
      [] format_id = "mp3_128" -> <<1, 2, 8>>
      [] format_id = "mp3_500" -> <<5, 0, 0>>
      [] format_id = "mp3_5" -> <<5>>
      [] OTHER -> <<>>

\* int() of a digit string.
RECURSIVE DigitsToInt(_)
DigitsToInt(ds) ==
    IF ds = <<>> THEN 0
    ELSE 10 * DigitsToInt(SubSeq(ds, 1, Len(ds) - 1)) + ds[Len(ds)]

\* api_stream_mp3's bitrate: the regex (?i)^mp3[_-]?(\d{2,3})$ needs two or
\* three digits, 192 without a match, then the clamp to 32..320.
Mp3Bitrate(format_id) ==
    LET ds == DigitsAfterMp3(format_id)
        matched == Len(ds) \in {2, 3}
        bitrate == IF matched THEN DigitsToInt(ds) ELSE 192
    IN  IF bitrate > 320 THEN 320 ELSE IF bitrate < 32 THEN 32 ELSE bitrate

\* "urls:<id>" -> value: format_id -> direct URL; an absent id is None.
EmptyMapping == [f \in PlainSelectors |-> NoUrl]

\* The info dict extract_info returns while generation g is current.
Info(g) ==
    [id |-> item.id,
     formats |-> [i \in 1..Len(item.formats) |->
        [format_id |-> item.formats[i].format_id,
         vcodec |-> item.formats[i].vcodec,
         acodec |-> item.formats[i].acodec,
         ext |-> item.formats[i].ext,
         protocol |-> item.formats[i].protocol,
         height |-> item.formats[i].height,
         tbr |-> item.formats[i].tbr,
         abr |-> item.formats[i].abr,
         filesize |-> item.formats[i].filesize,
         url |-> UrlOf(item.formats[i].format_id, g)]],
     url |-> IF item.top = 0 THEN NoUrl
             ELSE UrlOf(item.formats[item.top].format_id, g)]

\* _cache_keys_for(info)
_cache_keys_for(info) ==
    [info |-> "info:v1", urls |-> "urls:v1"]

\* What a request carries along: the cache, the upstream generations, how
\* often it has called extract_info, and the cached URL whose probe failed.
StartCtx ==
    [st |-> CacheState, gen |-> gen, dead |-> deadGens, extracts |-> 0,
     failedCached |-> NoUrl, failedFresh |-> NoUrl]

\* The status upstream answers a HEAD with: 403 once the URL has expired.
HeadStatus(ctx, url) == IF url.gen \in ctx.dead THEN 403 ELSE 200

\* _head_ok(url): True without httpx, otherwise whether HEAD answers 200.
_head_ok(ctx, url) == IF ~httpx THEN TRUE ELSE HeadStatus(ctx, url) = 200

\* One call of ydl.extract_info(url, download=False): it raises, returns
\* None, or returns the info dict with the current URLs or newly signed ones.
ExtractInfo(ctx) ==
    LET called == [ctx EXCEPT !.extracts = @ + 1] IN
    { [out |-> o, ctx |-> called] : o \in {"none", "raise"} }
    \cup { [out |-> "ok", info |-> Info(g), ctx |-> [called EXCEPT !.gen = g]] :
           g \in {ctx.gen, ctx.gen + 1} \cap 1..MaxGen }

\* The outcomes of a request.
Failure(ctx, status) ==
    [status |-> status, kind |-> "error", url |-> NoUrl, audio |-> NoUrl,
     bitrate |-> 0, ctx |-> ctx]

Delivered(ctx, status, kind, url) ==
    [status |-> status, kind |-> kind, url |-> url, audio |-> NoUrl,
     bitrate |-> 0, ctx |-> ctx]

Transcoded(ctx, kind, url, audio, bitrate) ==
    [status |-> 200, kind |-> kind, url |-> url, audio |-> audio,
     bitrate |-> bitrate, ctx |-> ctx]

\* A request that goes on with a resolved URL.
Resolved(ctx, direct) ==
    [status |-> 0, kind |-> "resolved", url |-> direct, audio |-> NoUrl,
     bitrate |-> 0, ctx |-> ctx]

\* f"map:{url}", f"urls:{vid}" and f"info:{vid}" for the one page and item.
MapKey(url) == "map:w1"
UrlsKey(vid) == "urls:v1"

\* The cached direct URL of (page, format_id): the page's video id from
\* "map:", then that id's mapping from "urls:"; None when either is missing.
CachedLookup(ctx, format_id) ==
    LET cached_map == _cache_get(ctx.st, MapKey(Page), FALSE)
        mapHit == cached_map.result.hit
        cached_urls == IF mapHit
                       THEN _cache_get(cached_map.st,
                                       UrlsKey(cached_map.result.value.id), FALSE)
                       ELSE [result |-> Absent, st |-> cached_map.st]
        mapping == IF cached_urls.result.hit THEN cached_urls.result.value
                   ELSE EmptyMapping
    IN  [ctx |-> [ctx EXCEPT !.st = cached_urls.st], mapHit |-> mapHit,
         direct_cached |-> mapping[format_id]]

\* The handlers' closing block: record the direct URL under the format id,
\* the info dict, and the page's id when "map:" did not have it.
WriteBack(ctx, info, format_id, direct, mapHit) ==
    LET keys == _cache_keys_for(info)
        got == _cache_get(ctx.st, keys.urls, FALSE)
        cur == IF got.result.hit THEN got.result.value ELSE EmptyMapping
        st1 == _cache_set(got.st, keys.urls, [cur EXCEPT ![format_id] = direct],
                          _CACHE_TTL, FALSE)
        st2 == _cache_set(st1, keys.info, info, _CACHE_TTL, FALSE)
        st3 == IF mapHit THEN st2
               ELSE _cache_set(st2, MapKey(Page), [id |-> info.id],
                               _CACHE_TTL, FALSE)
    IN  [ctx EXCEPT !.st = st3]

\* "retry once by refetching": the second extract_info of a request, made
\* when the freshly resolved URL failed its probe.  An info of None makes
\* _resolve_direct_url raise, which the framework answers with 500.
RetryOnce(ctx, format_id, mapHit) ==
    UNION { IF e.out = "ok"
            THEN LET direct == _resolve_direct_url(e.info, format_id) IN
                 IF direct = NoUrl \/ ~_head_ok(e.ctx, direct)
                 THEN {Failure(e.ctx, 410)}
                 ELSE {Resolved(WriteBack(e.ctx, e.info, format_id, direct,
                                          mapHit), direct)}
            ELSE {Failure(e.ctx, 500)}
          : e \in ExtractInfo(ctx) }

\* "Fallback: fetch fresh info and resolve direct URL".
ResolveFresh(ctx, format_id, mapHit) ==
    UNION { IF e.out = "raise" THEN {Failure(e.ctx, 500)}
            ELSE IF e.out = "none" THEN {Failure(e.ctx, 502)}
            ELSE LET direct == _resolve_direct_url(e.info, format_id) IN
                 IF direct = NoUrl THEN {Failure(e.ctx, 404)}
                 ELSE IF _head_ok(e.ctx, direct)
                 THEN {Resolved(WriteBack(e.ctx, e.info, format_id, direct,
                                          mapHit), direct)}
                 ELSE RetryOnce([e.ctx EXCEPT !.failedFresh = direct],
                                format_id, mapHit)
          : e \in ExtractInfo(ctx) }

\* The part /api/stream, /api/redirect and /api/download share: the cached
\* URL when it is there and its probe passes, a fresh resolution otherwise.
ResolveDirect(ctx, format_id) ==
    LET c == CachedLookup(ctx, format_id)
        cached == c.direct_cached # NoUrl
        alive == cached /\ _head_ok(c.ctx, c.direct_cached)
        ctx1 == IF cached /\ ~alive
                THEN [c.ctx EXCEPT !.failedCached = c.direct_cached]
                ELSE c.ctx
    IN  IF alive THEN {Resolved(ctx1, c.direct_cached)}
        ELSE ResolveFresh(ctx1, format_id, c.mapHit)

\* "Stream the resolved URL": 500 without httpx; otherwise a HEAD, whose
\* status of 400 or more is passed on, and then the proxied body.
StreamUpstream(ctx, direct) ==
    IF ~httpx THEN {Failure(ctx, 500)}
    ELSE IF HeadStatus(ctx, direct) >= 400
    THEN {Failure(ctx, HeadStatus(ctx, direct))}
    ELSE {Delivered(ctx, 200, "proxy", direct)}

\* api_passthrough(url, filename)
api_passthrough(ctx, url) == StreamUpstream(ctx, url)

\* api_stream(url, format_id)
api_stream(ctx, format_id) ==
    IF StartsWithMp3(format_id) THEN {Failure(ctx, 400)}
    ELSE UNION { IF r.kind = "resolved" THEN StreamUpstream(r.ctx, r.url)
                 ELSE {r}
               : r \in ResolveDirect(ctx, format_id) }

\* api_redirect(url, format_id)
api_redirect(ctx, format_id) ==
    IF StartsWithMp3(format_id) THEN {Failure(ctx, 400)}
    ELSE { IF r.kind = "resolved"
           THEN Delivered(r.ctx, 302, "redirect", r.url)
           ELSE r
         : r \in ResolveDirect(ctx, format_id) }

\* api_download(url, format_id)
api_download(ctx, format_id) ==
    IF StartsWithMp3(format_id) THEN {Failure(ctx, 400)}
    ELSE IF ~httpx THEN api_redirect(ctx, format_id)
    ELSE UNION { IF r.kind = "resolved" THEN api_passthrough(r.ctx, r.url)
                 ELSE {r}
               : r \in ResolveDirect(ctx, format_id) }

\* The codec tests of api_stream_mp3 and api_stream_merge.
IsAudioOnly(f) ==
    (Truthy(f.acodec) /\ f.acodec # "none")
    /\ (~Truthy(f.vcodec) \/ f.vcodec = "none")

IsVideoOnly(f) ==
    (Truthy(f.vcodec) /\ f.vcodec # "none")
    /\ (~Truthy(f.acodec) \/ f.acodec = "none")

\* _abr(f): int(abr or tbr or 0)
_abr(f) == IF f.abr # 0 THEN f.abr ELSE f.tbr

\* The audio-only streams, best first: sorted by (_abr(f), filesize or 0),
\* descending.
AudioStreams(fmts) ==
    LET audio_streams == SelectSeq(fmts, IsAudioOnly) IN
    SortDesc(audio_streams,
             [i \in 1..Len(audio_streams) |->
                <<_abr(audio_streams[i]), audio_streams[i].filesize>>])

\* Whether subprocess.Popen finds ffmpeg.
SpawnChoices == BOOLEAN

\* api_stream_mp3(url, format_id)
api_stream_mp3(ctx, format_id) ==
    LET bitrate == Mp3Bitrate(format_id) IN
    UNION { IF e.out = "raise" THEN {Failure(e.ctx, 500)}
            ELSE IF e.out = "none" THEN {Failure(e.ctx, 502)}
            ELSE LET audio_streams == AudioStreams(e.info.formats) IN
                 IF audio_streams = <<>> THEN {Failure(e.ctx, 404)}
                 ELSE LET best_audio == audio_streams[1] IN
                      { IF spawned
                        THEN Transcoded(e.ctx, "mp3", NoUrl, best_audio.url, bitrate)
                        ELSE Failure(e.ctx, 500)
                      : spawned \in SpawnChoices }
          : e \in ExtractInfo(ctx) }

\* api_stream_merge(url, format_id)
api_stream_merge(ctx, format_id) ==
    UNION { IF e.out = "raise" THEN {Failure(e.ctx, 500)}
            ELSE IF e.out = "none" THEN {Failure(e.ctx, 502)}
            ELSE LET fmts == e.info.formats
                     i == FirstIndex([k \in 1..Len(fmts) |->
                                        fmts[k].format_id = format_id])
                     video_url == IF i # 0 /\ IsVideoOnly(fmts[i])
                                  THEN fmts[i].url ELSE NoUrl
                     audio_streams == AudioStreams(fmts)
                 IN  IF video_url = NoUrl THEN {Failure(e.ctx, 404)}
                     ELSE IF audio_streams = <<>> THEN {Failure(e.ctx, 404)}
                     ELSE LET best_audio == audio_streams[1] IN
                          { IF spawned
                            THEN Transcoded(e.ctx, "merge", video_url,
                                            best_audio.url, 0)
                            ELSE Failure(e.ctx, 500)
                          : spawned \in SpawnChoices }
          : e \in ExtractInfo(ctx) }

\* api_v2_instant(platform, url, format_id)
api_v2_instant(ctx, format_id) ==
    IF StartsWithMp3(format_id) THEN api_stream_mp3(ctx, format_id)
    ELSE UNION { IF r.kind = "error" /\ r.status \in {404, 410}
                 THEN api_stream_merge(r.ctx, format_id)
                 ELSE {r}
               : r \in api_stream(ctx, format_id) }

\* ---- actions of the resolution specification ----

\* process = subprocess.Popen(cmd, stdout=PIPE, stderr=PIPE), and the
\* StreamingResponse over ffmpeg_streamer() that the handler returns: the
\* process runs, the generator stands at the top of its loop, the client is
\* connected.
Popen ==
    [pc |-> "loop", process |-> "running", client |-> "connected",
     chunks |-> 0, waited |-> 0, raised |-> "no"]

\* The response goes out and the handler's effects stay behind.
Answer(endpoint, format_id, r) ==
    /\ resp' = [endpoint |-> endpoint, format_id |-> format_id,
                status |-> r.status, kind |-> r.kind, url |-> r.url,
                audio |-> r.audio, bitrate |-> r.bitrate,
                extracts |-> r.ctx.extracts,
                failedCached |-> r.ctx.failedCached,
                failedFresh |-> r.ctx.failedFresh]
    /\ StoreCache(r.ctx.st)
    /\ gen' = r.ctx.gen
    /\ deadGens' = r.ctx.dead
    /\ ffmpeg' = IF r.kind \in {"mp3", "merge"} THEN Popen ELSE NoStream
    /\ UNCHANGED <<svc, now, ticks, redisCfg, redisFaulty, format_cache,
                   lastPut, lastGet, httpx, item, taskVars, extraction>>

\* GET /api/stream
GetApiStream ==
    /\ svc = "main_api"
    /\ \E format_id \in DirectSelectors :
         \E r \in api_stream(StartCtx, format_id) :
            Answer("stream", format_id, r)

\* GET /api/redirect
GetApiRedirect ==
    /\ svc = "main_api"
    /\ \E format_id \in DirectSelectors :
         \E r \in api_redirect(StartCtx, format_id) :
            Answer("redirect", format_id, r)

\* GET /api/download
GetApiDownload ==
    /\ svc = "main_api"
    /\ \E format_id \in DirectSelectors :
         \E r \in api_download(StartCtx, format_id) :
            Answer("download", format_id, r)

\* GET /api/stream_mp3
GetApiStreamMp3 ==
    /\ svc = "main_api"
    /\ \E format_id \in TranscodeSelectors :
         \E r \in api_stream_mp3(StartCtx, format_id) :
            Answer("stream_mp3", format_id, r)

\* GET /api/stream_merge
GetApiStreamMerge ==
    /\ svc = "main_api"
    /\ \E format_id \in PlainSelectors :
         \E r \in api_stream_merge(StartCtx, format_id) :
            Answer("stream_merge", format_id, r)

\* GET /api/v2/{platform}/instant
GetApiV2Instant ==
    /\ svc = "main_api"
    /\ \E format_id \in Selectors :
         \E r \in api_v2_instant(StartCtx, format_id) :
            Answer("instant", format_id, r)

\* the upstream URLs of one generation stop answering
UrlsExpire ==
    /\ \E g \in (1..gen) \ deadGens : deadGens' = deadGens \cup {g}
    /\ UNCHANGED <<cacheVars, httpx, item, gen, resp, taskVars, ffmpeg, extraction>>

\* The endpoints of a fresh process.  The clock stands still here: expiry
\* of entries is the cache specification's subject.
InitResolve ==
    /\ InitCacheIdle
    /\ svc = "main_api"
    /\ redisCfg = FALSE
    /\ httpx \in BOOLEAN
    /\ item \in SampleItems
    /\ gen = 1
    /\ deadGens = {}
    /\ resp = NoResp
    /\ tasks = [t \in TaskIds |-> NoTask]
    /\ workers = [t \in TaskIds |-> NoWorker]
    /\ last_update = [t \in TaskIds |-> 0]
    /\ ffmpeg = NoStream
    /\ extraction = NoExtraction

\* /api/stream, /api/redirect and /api/download over a changing upstream.
NextResolve ==
    \/ UrlsExpire
    \/ GetApiStream
    \/ GetApiRedirect
    \/ GetApiDownload

SpecResolve == InitResolve /\ [][NextResolve]_vars

\* The instant dispatcher and the two ffmpeg endpoints.
NextInstant ==
    \/ UrlsExpire
    \/ GetApiStreamMp3
    \/ GetApiStreamMerge
    \/ GetApiV2Instant

SpecInstant == InitResolve /\ [][NextInstant]_vars

\* The three endpoints that serve a direct URL through the cache.
DirectEndpoints == {"stream", "redirect", "download"}

(***************************************************************************)
(* C2  Liveness re-resolution.  In /api/stream, /api/redirect and          *)
(* /api/download, a request whose cached URL failed its HEAD probe calls   *)
(* the extractor exactly once; when the URL resolved by that call fails    *)
(* its probe too, the request ends with 410 and no further call.           *)
(***************************************************************************)
ReResolvedExactlyOnce ==
    (resp.endpoint \in DirectEndpoints /\ resp.failedCached # NoUrl) =>
        /\ resp.extracts = 1
        /\ resp.failedFresh # NoUrl => resp.status = 410

(***************************************************************************)
(* C3  Cache invalidation on failed probe.  After a request whose cached   *)
(* URL failed its probe has ended (served, or ended with 404 or 410), the  *)
(* cache no longer returns that URL for the same video id and format id.   *)
(***************************************************************************)
FailedUrlNotServedAgain ==
    (/\ resp.endpoint \in DirectEndpoints
     /\ resp.failedCached # NoUrl
     /\ resp.status \in {200, 302, 404, 410}) =>
        CachedLookup(StartCtx, resp.format_id).direct_cached # resp.failedCached

\* The formats of the item that carry video and audio together, video
\* alone, audio alone.
HasBothCodecs(f) ==
    Truthy(f.vcodec) /\ f.vcodec # "none" /\ Truthy(f.acodec) /\ f.acodec # "none"

\* The format carries an audio track.
HasAudio(f) == Truthy(f.acodec) /\ f.acodec # "none"

\* The formats of the item, as a set.
ItemFormatSet == { item.formats[i] : i \in 1..Len(item.formats) }

\* A response that hands the client an upstream URL as it is.
IsDirect(r) == r.kind \in {"proxy", "redirect"}

(***************************************************************************)
(* C4  Resolver fallback for "best".  For an item without a progressive    *)
(* format but with a video-only and an audio-only format, the instant      *)
(* dispatcher answers selector "best" by the merge path: never with 404    *)
(* and never with a direct stream.                                         *)
(***************************************************************************)
BestFallsBackToMerge ==
    (/\ resp.endpoint = "instant"
     /\ resp.format_id = "best"
     /\ ~\E f \in ItemFormatSet : HasBothCodecs(f)
     /\ \E f \in ItemFormatSet : IsVideoOnly(f)
     /\ \E f \in ItemFormatSet : IsAudioOnly(f)) =>
        /\ resp.status # 404
        /\ ~IsDirect(resp)

\* The requested id names a video-only format of the item.
NamesVideoOnly(format_id) ==
    \E f \in ItemFormatSet : f.format_id = format_id /\ IsVideoOnly(f)

\* The requested id names a format of the item.
NamesFormat(format_id) ==
    \E f \in ItemFormatSet : f.format_id = format_id

(***************************************************************************)
(* C5  Explicit-id resolution.  A served request for a format id of the    *)
(* item serves exactly that format, and when the format is video-only the  *)
(* response is the merge with the best audio, never a direct stream of     *)
(* the video-only URL.                                                     *)
(***************************************************************************)
ExplicitVideoOnlyMerges ==
    (/\ resp.endpoint = "instant"
     /\ NamesFormat(resp.format_id)
     /\ resp.status = 200) =>
        /\ resp.url.fid = resp.format_id
        /\ (/\ NamesVideoOnly(resp.format_id)
            /\ \E f \in ItemFormatSet : IsAudioOnly(f)) =>
              resp.kind = "merge"

(***************************************************************************)
(* C7  Synthetic audio selector.  The instant dispatcher answers           *)
(* "mp3_<n>" by the audio transcode at n kbps whatever formats an item     *)
(* that carries audio has: never with 404 and never with a direct stream.  *)
(***************************************************************************)
Mp3AlwaysTranscodes ==
    (/\ resp.endpoint = "instant"
     /\ StartsWithMp3(resp.format_id)
     /\ \E f \in ItemFormatSet : HasAudio(f)) =>
        /\ resp.status # 404
        /\ ~IsDirect(resp)
        /\ resp.kind = "mp3" /\ resp.format_id = "mp3_192" => resp.bitrate = 192

(***************************************************************************)
(* Download tasks: POST /api/v2/{platform}/download and DELETE             *)
(* /api/v2/task/{id} of main_api.py, POST /api/download and the _download  *)
(* thread of app.py.                                                       *)
(***************************************************************************)
\* uuid4(): an id no record and no worker has.
NewTaskId ==
    CHOOSE t \in TaskIds :
        /\ tasks[t] = NoTask /\ workers[t] = NoWorker
        /\ \A u \in 1..(t - 1) : tasks[u] # NoTask \/ workers[u] # NoWorker

\* What the frame of a task endpoint leaves alone.
besideTasks == <<cacheVars, httpx, item, gen, deadGens, ffmpeg, extraction>>

\* main_api.py _progress_hook, the record it writes for event st; the record
\* stays as it is for any other event.
_progress_hook(task, st) ==
    IF st = "downloading" THEN [status |-> "downloading"]
    ELSE IF st \in {"finished", "complete"} THEN [status |-> "processing"]
    ELSE task

\* POST /api/v2/{platform}/download: 403 for Facebook, the Celery task when
\* the broker answers, otherwise an in-process task that starts queued.
\* files is how many files the chosen format will download.
api_v2_platform_download ==
    /\ svc = "main_api"
    /\ \E t \in TaskIds : tasks[t] = NoTask /\ workers[t] = NoWorker
    /\ \E platform \in {"youtube", "facebook"}, celery \in BOOLEAN,
          format_id \in Selectors, files \in 1..MaxFiles :
        IF platform = "facebook"
        THEN /\ resp' = [endpoint |-> "v2_download", status |-> 403]
             /\ UNCHANGED taskVars
        ELSE IF celery
        THEN /\ resp' = [endpoint |-> "v2_download", status |-> 200,
                         task_id |-> 0, fallback |-> FALSE]
             /\ UNCHANGED taskVars
        ELSE /\ tasks' = [tasks EXCEPT ![NewTaskId] = [status |-> "queued"]]
             /\ last_update' = [last_update EXCEPT ![NewTaskId] = now]
             /\ workers' = [workers EXCEPT ![NewTaskId] =
                    [pc |-> "run", left |-> files, st |-> ""]]
             /\ resp' = [endpoint |-> "v2_download", status |-> 200,
                         task_id |-> NewTaskId, fallback |-> TRUE]
    /\ UNCHANGED besideTasks

\* yt-dlp calls the progress hook of a running task: "downloading" while a
\* file is coming, "finished" when it is complete.  The hook returns at once
\* for a cancelled task; otherwise its write is still to come.
ProgressHookCalled ==
    /\ svc = "main_api"
    /\ \E t \in TaskIds, st \in {"downloading", "finished"} :
        /\ workers[t].pc = "run"
        /\ workers[t].left > 0
        /\ workers' = [workers EXCEPT ![t] =
              [pc |-> IF tasks[t].status = "cancelled" THEN "run" ELSE "hook",
               left |-> IF st = "finished" THEN @.left - 1 ELSE @.left,
               st |-> st]]
        /\ UNCHANGED <<tasks, last_update, resp, besideTasks>>

\* the hook replaces the task's record
ProgressHookWrites ==
    /\ svc = "main_api"
    /\ \E t \in TaskIds :
        /\ workers[t].pc = "hook"
        /\ tasks' = [tasks EXCEPT ![t] = _progress_hook(@, workers[t].st)]
        /\ last_update' = [last_update EXCEPT ![t] = now]
        /\ workers' = [workers EXCEPT ![t].pc = "run"]
        /\ UNCHANGED <<resp, besideTasks>>

\* _start_download_task: _run_download_task returns the file or raises, and
\* the record becomes finished or error unless the task is cancelled.
_start_download_task ==
    /\ svc = "main_api"
    /\ \E t \in TaskIds, raised \in BOOLEAN :
        /\ workers[t].pc = "run"
        /\ raised \/ workers[t].left = 0
        /\ tasks' = [tasks EXCEPT ![t] =
              IF @.status = "cancelled" THEN @
              ELSE IF raised THEN [status |-> "error"]
              ELSE [status |-> "finished"]]
        /\ last_update' = [last_update EXCEPT ![t] =
              IF tasks[t].status = "cancelled" THEN @ ELSE now]
        /\ workers' = [workers EXCEPT ![t] = [pc |-> "done"]]
        /\ UNCHANGED <<resp, besideTasks>>

\* DELETE /api/v2/task/{task_id}
api_v2_task_cancel ==
    /\ svc = "main_api"
    /\ \E t \in TaskIds :
        IF tasks[t] = NoTask
        THEN /\ resp' = [endpoint |-> "v2_cancel", status |-> 404, task_id |-> t]
             /\ UNCHANGED taskVars
        ELSE /\ tasks' = [tasks EXCEPT ![t] = [status |-> "cancelled"]]
             /\ last_update' = [last_update EXCEPT ![t] = now]
             /\ resp' = [endpoint |-> "v2_cancel", status |-> 200, task_id |-> t]
             /\ UNCHANGED workers
    /\ UNCHANGED besideTasks

\* The format_id values the Flask front end posts: "best", format ids, and
\* a selector string.
FlaskFormatIds == {"best", "18", "137", "299", "137+140"}

\* app.py api_download's test for a selector string: the text contains
\* "bestvideo", "best", "+" or "[".
LooksLikeSelector(format_id) == format_id \in {"best", "137+140"}

\* app.py api_download, "Decide selector and client": the format selector for
\* format_id given the discovered info, as the pieces of the string.
flask_format_selector(info, format_id) ==
    LET i == FirstIndex([k \in 1..Len(info.formats) |->
                            info.formats[k].format_id = format_id])
        has_video == Truthy(info.formats[i].vcodec) /\ info.formats[i].vcodec # "none"
        has_audio == Truthy(info.formats[i].acodec) /\ info.formats[i].acodec # "none"
    IN  IF format_id = "best" THEN <<"bestvideo[height<=4320]+bestaudio/best">>
        ELSE IF i # 0
        THEN IF has_video /\ ~has_audio
             THEN <<format_id, "+bestaudio[ext=m4a]/", format_id, "+bestaudio">>
             ELSE <<format_id>>
        ELSE IF LooksLikeSelector(format_id) THEN <<format_id>>
        ELSE <<"bestvideo[ext=mp4][vcodec^=avc1][height<=4320]+bestaudio[ext=m4a]/best[ext=mp4]/best">>

\* str(e) of an exception: where it was raised (the first or the second
\* run of extract_info, or a strategy of the ladder) and which it was.
ErrorMsg(at, n, what) == [at |-> at, n |-> n, what |-> what]

NoError == ErrorMsg("none", 0, "")

\* app.py POST /api/download: 400 for a bad URL, 502 when discovery finds
\* nothing, otherwise a task that starts as 'starting' and its thread.
flask_api_download ==
    /\ svc = "flask"
    /\ \E t \in TaskIds : tasks[t] = NoTask /\ workers[t] = NoWorker
    /\ \E format_id \in FlaskFormatIds, valid \in BOOLEAN, discovered \in BOOLEAN :
        IF ~valid
        THEN /\ resp' = [endpoint |-> "flask_download", status |-> 400,
                         format_id |-> format_id, task_id |-> 0]
             /\ UNCHANGED taskVars
        ELSE IF ~discovered
        THEN /\ resp' = [endpoint |-> "flask_download", status |-> 502,
                         format_id |-> format_id, task_id |-> 0]
             /\ UNCHANGED taskVars
        ELSE LET format_selector == flask_format_selector(Info(gen), format_id) IN
             /\ tasks' = [tasks EXCEPT ![NewTaskId] =
                    [status |-> "starting", error |-> NoError]]
             /\ last_update' = [last_update EXCEPT ![NewTaskId] = now]
             /\ workers' = [workers EXCEPT ![NewTaskId] =
                    [pc |-> "start", try |-> 1, extracts |-> 0,
                     error_msg |-> NoError, fallback_error |-> NoError,
                     preparing_thread |-> "none",
                     format_selector |-> format_selector]]
             /\ resp' = [endpoint |-> "flask_download", status |-> 200,
                         format_id |-> format_id, task_id |-> NewTaskId,
                         format_selector |-> format_selector]
    /\ UNCHANGED besideTasks

\* app.py _progress_hook, the status it leaves for event st of the download
\* or the postprocessor hooks.
flask_progress_hook(status, st) ==
    IF st = "downloading" THEN "downloading"
    ELSE IF st = "postprocessing" THEN "processing"
    ELSE status

\* len(fallback_strategies) in app.py _download
FallbackStrategies == 13

\* One step of the _download thread of a task.  It sets initializing, then
\* preparing; runs extract_info, and once more without the external
\* downloader when that raised; with the file found it sets processing and,
\* after the optimiser, finished; a DownloadError of the listed kinds enters
\* the fallback ladder, whose strategies run in turn until one leaves a file
\* (finished); every other failure, and the end of the ladder, sets error
\* with error_msg, the message of the exception that left the first block.
\* The hooks fire while extract_info runs.  A thread whose record is gone
\* dies of the KeyError.  With preparing the thread starts preparing_thread,
\* which is followed until _download returns.
_download ==
    /\ svc = "flask"
    /\ \E t \in TaskIds :
        LET w == workers[t]
            Set(status, pc, touch) ==
                /\ tasks' = [tasks EXCEPT ![t].status = status]
                /\ workers' = [workers EXCEPT ![t] =
                      IF pc = "done" THEN [pc |-> "done"] ELSE [@ EXCEPT !.pc = pc]]
                /\ last_update' = [last_update EXCEPT ![t] =
                                      IF touch THEN now ELSE @]
            Go(worker) ==
                /\ workers' = [workers EXCEPT ![t] = worker]
                /\ UNCHANGED <<tasks, last_update>>
        IN
        /\ w.pc \notin {"none", "done"}
        /\ IF tasks[t] = NoTask
           THEN /\ workers' = [workers EXCEPT ![t] = NoWorker]
                /\ UNCHANGED <<tasks, last_update>>
           ELSE
           \/ w.pc = "start" /\ Set("initializing", "init", TRUE)
           \/ /\ w.pc = "init"
              /\ tasks' = [tasks EXCEPT ![t].status = "preparing"]
              /\ workers' = [workers EXCEPT ![t] =
                    [w EXCEPT !.pc = "extract", !.preparing_thread = "loop"]]
              /\ last_update' = [last_update EXCEPT ![t] = now]
           \/ /\ w.pc \in {"extract", "fallback"}
              /\ \E st \in {"downloading", "finished", "started", "processing"} :
                    Set(flask_progress_hook(tasks[t].status, st), w.pc,
                        st \in {"downloading", "finished"})
           \/ /\ w.pc = "extract"
              /\ \E out \in {"file", "nofile", "raise", "DownloadError",
                             "unavailable"} :
                    LET ran == [w EXCEPT !.extracts = @ + 1] IN
                    IF out = "file"
                    THEN /\ tasks' = [tasks EXCEPT ![t].status = "processing"]
                         /\ workers' = [workers EXCEPT ![t] =
                                           [ran EXCEPT !.pc = "optimize"]]
                         /\ last_update' = [last_update EXCEPT ![t] = now]
                    ELSE IF out = "nofile"
                    THEN /\ tasks' = [tasks EXCEPT ![t].status = "error",
                                ![t].error = ErrorMsg("extract", w.try, out)]
                         /\ workers' = [workers EXCEPT ![t] = [pc |-> "done"]]
                         /\ UNCHANGED last_update
                    ELSE IF w.try = 1
                    THEN Go([ran EXCEPT !.try = 2])
                    ELSE IF out = "unavailable"
                    THEN Go([ran EXCEPT !.pc = "fallback", !.try = 1,
                                 !.error_msg = ErrorMsg("extract", 2, out)])
                    ELSE /\ tasks' = [tasks EXCEPT ![t].status = "error",
                                ![t].error = ErrorMsg("extract", 2, out)]
                         /\ workers' = [workers EXCEPT ![t] = [pc |-> "done"]]
                         /\ UNCHANGED last_update
           \/ w.pc = "optimize" /\ Set("finished", "done", FALSE)
           \/ /\ w.pc = "fallback"
              /\ \E out \in {"file", "nofile", "raise"} :
                    LET ran == [w EXCEPT !.extracts = @ + 1,
                                         !.fallback_error =
                                            IF out = "raise"
                                            THEN ErrorMsg("fallback", w.try, out)
                                            ELSE @]
                    IN
                    IF out = "file"
                    THEN /\ tasks' = [tasks EXCEPT ![t].status = "finished"]
                         /\ workers' = [workers EXCEPT ![t] = [pc |-> "done"]]
                         /\ UNCHANGED last_update
                    ELSE IF w.try < FallbackStrategies
                    THEN Go([ran EXCEPT !.try = @ + 1])
                    ELSE /\ tasks' = [tasks EXCEPT ![t].status = "error",
                                                   ![t].error = w.error_msg]
                         /\ workers' = [workers EXCEPT ![t] = [pc |-> "done"]]
                         /\ UNCHANGED last_update
        /\ UNCHANGED <<resp, besideTasks>>

\* One step of the thread that runs _simulate_preparing_progress(task_id):
\* at the head of the loop its three seconds are over, or it tests that the
\* record is there with status 'preparing' (checked); then it writes
\* progress and last_update and sleeps.  A record gone by then ends the
\* thread with a KeyError.
_simulate_preparing_progress ==
    /\ svc = "flask"
    /\ \E t \in TaskIds :
        LET w == workers[t]
            Thread(pc) == workers' = [workers EXCEPT ![t].preparing_thread = pc]
        IN
        /\ w.pc \notin {"none", "done"}
        /\ \/ /\ w.preparing_thread = "loop"
              /\ \/ Thread("done")
                 \/ IF tasks[t] = NoTask \/ tasks[t].status # "preparing"
                    THEN Thread("done") ELSE Thread("checked")
              /\ UNCHANGED <<tasks, last_update>>
           \/ /\ w.preparing_thread = "checked"
              /\ IF tasks[t] = NoTask
                 THEN Thread("done") /\ UNCHANGED last_update
                 ELSE /\ Thread("loop")
                      /\ last_update' = [last_update EXCEPT ![t] = now]
              /\ UNCHANGED tasks
    /\ UNCHANGED <<resp, besideTasks>>

\* A fresh process of either service.
InitTasks ==
    /\ InitCacheIdle
    /\ redisCfg = FALSE
    /\ svc \in {"main_api", "flask"}
    /\ httpx = TRUE
    /\ item = [id |-> "v1", formats |-> <<F95, F18, F22, F137, F140>>,
               top |-> 0]
    /\ gen = 1
    /\ deadGens = {}
    /\ resp = NoResp
    /\ tasks = [t \in TaskIds |-> NoTask]
    /\ workers = [t \in TaskIds |-> NoWorker]
    /\ last_update = [t \in TaskIds |-> 0]
    /\ ffmpeg = NoStream
    /\ extraction = NoExtraction

\* The Flask service is explored with one download thread at a time.
OneDownloadThread == \A t \in TaskIds : workers[t].pc \in {"none", "done"}

NextTasks ==
    \/ api_v2_platform_download
    \/ ProgressHookCalled
    \/ ProgressHookWrites
    \/ _start_download_task
    \/ api_v2_task_cancel
    \/ OneDownloadThread /\ flask_api_download
    \/ _download
    \/ _simulate_preparing_progress

SpecTasks == InitTasks /\ [][NextTasks]_vars

(***************************************************************************)
(* Garbage collection of task records.                                     *)
(***************************************************************************)
TASK_CLEANUP_INTERVAL == 3600

TASK_MAX_AGE == 7200

\* How many hours the clock advances.
MaxHours == 4

\* app.py cleanup_old_tasks, one round of its loop: it sleeps for
\* TASK_CLEANUP_INTERVAL, then pops every record whose last_update is more
\* than TASK_MAX_AGE back.  The thread is started by app.py run as a script.
cleanup_old_tasks ==
    /\ svc = "flask"
    /\ ticks < MaxHours
    /\ ticks' = ticks + 1
    /\ now' = now + TASK_CLEANUP_INTERVAL
    /\ LET tasks_to_delete ==
              { t \in TaskIds : /\ tasks[t] # NoTask
                                /\ now' - last_update[t] > TASK_MAX_AGE }
       IN  /\ tasks' = [t \in TaskIds |->
                           IF t \in tasks_to_delete THEN NoTask ELSE tasks[t]]
           /\ workers' = [t \in TaskIds |->
                           IF t \in tasks_to_delete /\ workers[t].pc = "done"
                           THEN NoWorker ELSE workers[t]]
           /\ last_update' = [t \in TaskIds |->
                           IF t \in tasks_to_delete THEN 0 ELSE last_update[t]]
    /\ UNCHANGED <<svc, redisCfg, redisFaulty, redisStore, infoCache,
                   format_cache, lastPut, lastGet, resp, httpx,
                   item, gen, deadGens, ffmpeg, extraction>>

\* An hour passes in the main_api process, which runs no thread or timer
\* over _tasks: nothing but the handlers and the workers touches the map.
HourPasses ==
    /\ svc = "main_api"
    /\ ticks < MaxHours
    /\ ticks' = ticks + 1
    /\ now' = now + TASK_CLEANUP_INTERVAL
    /\ UNCHANGED <<svc, redisCfg, redisFaulty, redisStore, infoCache,
                   format_cache, lastPut, lastGet, resolveVars, taskVars, ffmpeg, extraction>>

\* The Flask map is explored with one record and one thread at a time.
NextGc ==
    \/ /\ \A t \in TaskIds : tasks[t] = NoTask
       /\ OneDownloadThread
       /\ flask_api_download
    \/ _download
    \/ cleanup_old_tasks
    \/ api_v2_platform_download
    \/ _start_download_task
    \/ api_v2_task_cancel
    \/ HourPasses

SpecGc == InitTasks /\ [][NextGc]_vars

(***************************************************************************)
(* C12  Task garbage collection.  Every record of the in-process task map  *)
(* is removed once the time since its last update exceeds TASK_MAX_AGE,    *)
(* whatever its status: by the next cleanup round at the latest, so that   *)
(* no record is ever older than TASK_MAX_AGE plus one cleanup interval.    *)
(***************************************************************************)
OldTasksRemoved ==
    \A t \in TaskIds :
        tasks[t] # NoTask =>
            now - last_update[t] <= TASK_MAX_AGE + TASK_CLEANUP_INTERVAL

(***************************************************************************)
(* C6  Unknown explicit selector.  A request for a format id that the item *)
(* does not list (neither "best", nor mp3_*, nor a selector string), whose *)
(* extraction succeeded, is answered 404 and starts no download task with  *)
(* a substituted format.                                                   *)
(***************************************************************************)
UnknownIdIsNotFound ==
    (/\ resp.endpoint = "flask_download"
     /\ resp.status \notin {400, 502}
     /\ ~NamesFormat(resp.format_id)
     /\ ~LooksLikeSelector(resp.format_id)
     /\ ~StartsWithMp3(resp.format_id)) =>
        /\ resp.status = 404
        /\ resp.task_id = 0

\* The place of a status in the order of C10.
StatusRank(status) ==
    CASE status \in {"queued", "starting"} -> 0
      [] status = "initializing" -> 1
      [] status = "preparing" -> 2
      [] status = "downloading" -> 3
      [] status = "processing" -> 4
      [] status \in {"finished", "error"} -> 5
      [] OTHER -> 6

(***************************************************************************)
(* C10  Download task status order.  Every change of a task's status moves *)
(* forward in the order queued, initializing, preparing, downloading,      *)
(* processing, finished or error, and a status of finished or error no     *)
(* longer changes.  (The cancel flag, which a request may set at any time, *)
(* is left aside here.)                                                    *)
(***************************************************************************)
StatusMovesForward ==
    [][\A t \in TaskIds :
        (/\ tasks[t] # NoTask
         /\ tasks'[t].status # tasks[t].status
         /\ tasks[t].status # "cancelled"
         /\ tasks'[t].status # "cancelled") =>
            /\ tasks[t].status \notin {"finished", "error"}
            /\ StatusRank(tasks'[t].status) > StatusRank(tasks[t].status)]_vars

(***************************************************************************)
(* C11  Soft cancellation.  Once cancel has marked an in-process task      *)
(* cancelled, its status stays cancelled under every interleaving of the   *)
(* worker's progress callbacks and completion with the cancel request.     *)
(***************************************************************************)
CancelledStaysCancelled ==
    [][\A t \in TaskIds :
        (svc = "main_api" /\ tasks[t].status = "cancelled") =>
            tasks'[t].status = "cancelled"]_vars

(***************************************************************************)
(* GET /{platform}/download of main.py: delivery of a resolved item.       *)
(***************************************************************************)
\* The Range headers a client sends: none, a closed and an open byte range,
\* and a unit that is not bytes.  An end of -1 is an omitted end.
RangeHeaders == {
    [unit |-> "none", start |-> 0, end |-> -1],
    [unit |-> "bytes", start |-> 0, end |-> 99],
    [unit |-> "bytes", start |-> 100, end |-> -1],
    [unit |-> "items", start |-> 0, end |-> 1] }

\* "Range-aware response headers": 206 for any Range header, 200 otherwise;
\* Content-Range and the partial Content-Length when the range is in bytes,
\* its start is a number and the total length is known (total_len 0: None).
RangeAwareHeaders(range_header, total_len) ==
    LET end == IF range_header.end < 0 \/ range_header.end >= total_len
               THEN total_len - 1 ELSE range_header.end
        partial == /\ range_header.unit = "bytes"
                   /\ total_len > 0
                   /\ end >= range_header.start
    IN  [status_code |-> IF range_header.unit = "none" THEN 200 ELSE 206,
         content_range |-> IF partial THEN <<range_header.start, end, total_len>>
                           ELSE <<>>,
         content_length |-> IF partial THEN end - range_header.start + 1
                            ELSE IF range_header.unit = "none" THEN total_len
                            ELSE 0]

\* download_from_platform(platform, url, format_id, filename, fast, proxy).
\* supported: the platform has a handler; got: what the handler's download
\* returned or raised; encodable: whether the Content-Disposition header
\* with the file name can be encoded, without which building the
\* StreamingResponse raises.  content_length is still None when the headers
\* are built: the HEAD probe that sets it runs inside the body generator.
download_from_platform ==
    /\ svc = "main"
    /\ \E supported \in BOOLEAN,
          got \in {"url", "file", "ValueError", "error"},
          fast \in BOOLEAN, proxy \in BOOLEAN, encodable \in BOOLEAN,
          range_header \in RangeHeaders :
        LET upstream == UrlOf("18", gen)
            content_length == 0
            hdrs == RangeAwareHeaders(range_header, content_length)
            Reply(status, kind, location, h) ==
                resp' = [endpoint |-> "platform_download", status |-> status,
                         kind |-> kind, location |-> location, got |-> got,
                         fast |-> fast, proxy |-> proxy,
                         range_header |-> range_header,
                         content_range |-> h.content_range,
                         content_length |-> h.content_length,
                         body |-> IF kind = "proxy" THEN "pending" ELSE "none"]
            none == [content_range |-> <<>>, content_length |-> 0]
        IN  IF ~supported THEN Reply(404, "error", NoUrl, none)
            ELSE IF got = "ValueError" THEN Reply(400, "error", NoUrl, none)
            ELSE IF got = "error" THEN Reply(500, "error", NoUrl, none)
            ELSE IF got = "file"
            THEN IF encodable THEN Reply(200, "file", NoUrl, none)
                 ELSE Reply(500, "error", NoUrl, none)
            ELSE IF fast /\ ~proxy THEN Reply(302, "redirect", upstream, none)
            ELSE IF encodable THEN Reply(hdrs.status_code, "proxy", upstream, hdrs)
            ELSE Reply(307, "redirect", upstream, none)
    /\ UNCHANGED <<cacheVars, httpx, item, gen, deadGens, taskVars, ffmpeg, extraction>>

\* stream_upstream(), the body of a proxied response: a HEAD probe, then the
\* GET with the client's Range; an upstream status of 400 or more ends the
\* body at once, otherwise the chunks are passed on.  The upstream answers
\* 206 only to a request that carries a Range, and need not honour it.
stream_upstream ==
    /\ svc = "main"
    /\ resp.endpoint = "platform_download"
    /\ resp.kind = "proxy"
    /\ resp.body = "pending"
    /\ \E upstream_status \in (IF resp.range_header.unit = "none" THEN {200, 403}
                              ELSE {200, 206, 403}) :
        resp' = [resp EXCEPT !.body =
                    IF upstream_status >= 400 THEN "failed"
                    ELSE IF upstream_status = 206 THEN "partial" ELSE "whole"]
    /\ UNCHANGED <<cacheVars, httpx, item, gen, deadGens, taskVars, ffmpeg, extraction>>

InitPlatform ==
    /\ InitCacheIdle
    /\ InitResolveIdle
    /\ redisCfg = FALSE
    /\ svc = "main"

NextPlatform ==
    \/ download_from_platform
    \/ stream_upstream

SpecPlatform == InitPlatform /\ [][NextPlatform]_vars

(***************************************************************************)
(* C8  Delivery strategy choice.  For a resolved direct upstream URL,      *)
(* download_from_platform answers with a 3xx redirect to the upstream URL  *)
(* exactly when the client asked for the fast path and did not force the   *)
(* proxy; in every other case the bytes are proxied through the service.   *)
(***************************************************************************)
RedirectIffFastNoProxy ==
    (/\ resp.endpoint = "platform_download"
     /\ resp.got = "url"
     /\ resp.status # 404) =>
        /\ (resp.kind = "redirect") <=> (resp.fast /\ ~resp.proxy)
        /\ ~(resp.fast /\ ~resp.proxy) => resp.kind = "proxy"

(***************************************************************************)
(* C20  Range propagation in the proxied stream.  The proxied response     *)
(* carries status 206 together with Content-Range and Content-Length       *)
(* exactly when the client sent a Range header and the upstream honoured   *)
(* it; when the upstream did not honour the range the response is not      *)
(* labelled 206.                                                           *)
(***************************************************************************)
RangeLabelledWhenHonoured ==
    (/\ resp.endpoint = "platform_download"
     /\ resp.kind = "proxy"
     /\ resp.body # "pending") =>
        LET honoured == resp.range_header.unit # "none" /\ resp.body = "partial"
        IN  /\ (/\ resp.status = 206
                /\ resp.content_range # <<>>
                /\ resp.content_length > 0) <=> honoured
            /\ ~honoured => resp.status # 206

(***************************************************************************)
(* ffmpeg_streamer(): the body generator of /api/stream_mp3 and            *)
(* /api/stream_merge, the ffmpeg process it reads, and the client.         *)
(***************************************************************************)
\* How many chunks a stream passes on before the model stops counting.
MaxChunks == 2

\* process.wait(timeout=5), in seconds
WaitTimeout == 5

\* One step of the generator, by where it stands.
\*   loop:     poll() shows a failed process -> raise, through finally;
\*             else stdout.read(): a chunk -> yield it; nothing left of a
\*             process that ended -> break; the request is cancelled while
\*             the read is awaited -> finally.
\*   yielded:  the client took the chunk -> back to the loop; the client
\*             is gone and the generator is closed -> finally.
\*   finally:  process.stdout.close(), then process.wait(timeout=5).
\*   wait:     the process has ended -> its return code, and a raise when
\*             it is not 0; a second passes; after five of them wait()
\*             raises TimeoutExpired and the generator ends.
ffmpeg_streamer ==
    /\ ffmpeg.pc \in {"loop", "yielded", "finally", "wait"}
    /\ \/ /\ ffmpeg.pc = "loop"
          /\ ffmpeg.process = "failed"
          /\ ffmpeg' = [ffmpeg EXCEPT !.pc = "finally", !.raised = "HTTPException"]
       \/ /\ ffmpeg.pc = "loop"
          /\ ffmpeg.process = "running"
          /\ ffmpeg.client = "connected"
          /\ ffmpeg.chunks < MaxChunks
          /\ ffmpeg' = [ffmpeg EXCEPT !.pc = "yielded", !.chunks = @ + 1]
       \/ /\ ffmpeg.pc = "loop"
          /\ ffmpeg.process = "ended"
          /\ ffmpeg' = [ffmpeg EXCEPT !.pc = "finally"]
       \/ /\ ffmpeg.pc \in {"loop", "yielded"}
          /\ ffmpeg.client = "gone"
          /\ ffmpeg' = [ffmpeg EXCEPT !.pc = "finally"]
       \/ /\ ffmpeg.pc = "yielded"
          /\ ffmpeg.client = "connected"
          /\ ffmpeg' = [ffmpeg EXCEPT !.pc = "loop"]
       \/ /\ ffmpeg.pc = "finally"
          /\ ffmpeg' = [ffmpeg EXCEPT !.pc = "wait", !.waited = 0]
       \/ /\ ffmpeg.pc = "wait"
          /\ ffmpeg.process = "ended"
          /\ ffmpeg' = [ffmpeg EXCEPT !.pc = "done"]
       \/ /\ ffmpeg.pc = "wait"
          /\ ffmpeg.process = "failed"
          /\ ffmpeg' = [ffmpeg EXCEPT !.pc = "done", !.raised = "HTTPException"]
       \/ /\ ffmpeg.pc = "wait"
          /\ ffmpeg.process = "running"
          /\ ffmpeg.waited < WaitTimeout
          /\ ffmpeg' = [ffmpeg EXCEPT !.waited = @ + 1]
       \/ /\ ffmpeg.pc = "wait"
          /\ ffmpeg.process = "running"
          /\ ffmpeg.waited = WaitTimeout
          /\ ffmpeg' = [ffmpeg EXCEPT !.pc = "done", !.raised = "TimeoutExpired"]
    /\ UNCHANGED <<cacheVars, resolveVars, taskVars, extraction>>

\* The ffmpeg process ends by itself: with 0 once its input is through and
\* its output written, which takes an open pipe, or with an error, such as
\* the broken pipe it meets when it writes after stdout was closed.  A
\* process that waits for its input writes nothing and goes on running.
FfmpegExits ==
    /\ ffmpeg.pc # "none"
    /\ ffmpeg.process = "running"
    /\ \E rc \in {"ended", "failed"} :
        /\ rc = "ended" => ffmpeg.pc \in {"loop", "yielded"}
        /\ ffmpeg' = [ffmpeg EXCEPT !.process = rc]
    /\ UNCHANGED <<cacheVars, resolveVars, taskVars, extraction>>

\* The client closes its connection while the body is under way.
ClientDisconnects ==
    /\ ffmpeg.pc \in {"loop", "yielded"}
    /\ ffmpeg.client = "connected"
    /\ ffmpeg' = [ffmpeg EXCEPT !.client = "gone"]
    /\ UNCHANGED <<cacheVars, resolveVars, taskVars, extraction>>

\* One item with a video-only and two audio-only formats, one stream at a
\* time.
InitFfmpeg ==
    /\ InitResolve
    /\ httpx = TRUE
    /\ item = [id |-> "v1", formats |-> <<F137, F140, F251>>, top |-> 0]

NextFfmpeg ==
    \/ ffmpeg.pc \in {"none", "done"} /\ GetApiStreamMp3
    \/ ffmpeg.pc \in {"none", "done"} /\ GetApiStreamMerge
    \/ ffmpeg_streamer
    \/ FfmpegExits
    \/ ClientDisconnects

SpecFfmpeg == InitFfmpeg /\ [][NextFfmpeg]_vars

(***************************************************************************)
(* C9  Subprocess cancellation.  For every MERGE_AV or TRANSCODE_AUDIO     *)
(* stream whose client disconnects while the transcoder still runs, the    *)
(* subprocess is terminated within a bounded grace period: no state is     *)
(* reachable in which the stream is closed, its client gone, and the       *)
(* subprocess still alive.                                                 *)
(***************************************************************************)
NoOrphanAfterTeardown ==
    (ffmpeg.pc = "done" /\ ffmpeg.client = "gone") => ffmpeg.process # "running"

(***************************************************************************)
(* Extractor calls of main_api: the semaphore, the deadlines, the retries. *)
(***************************************************************************)
\* _extraction_semaphore = asyncio.Semaphore(5)
SemaphoreSlots == 5

\* How many /info and /instant requests are in flight at once.
MaxFetchers == 5

\* How many timed-out extractor threads are followed.
MaxZombies == 2

\* api_info with one more attempt for a restricted platform with cookies
max_attempts_more(platform, has_cookies) ==
    IF platform = "youtube" THEN 2
    ELSE IF has_cookies THEN 4 ELSE 2

\* api_info, "Choose timeout and retries/backoff by platform"
max_attempts(platform, has_cookies) ==
    IF platform = "youtube" THEN 2
    ELSE IF has_cookies THEN 3 ELSE 2

\* The extractor calls that hold a slot of the semaphore.
Holders ==
    (IF extraction.info.pc = "extracting" THEN 1 ELSE 0)
        + extraction.running + extraction.hung

\* The extractor calls that are executing: those that hold a slot, the
\* threads left behind by a timeout, and the call on the event loop.
Executing ==
    Holders + extraction.zombies + (IF extraction.sync = "none" THEN 0 ELSE 1)

\* The event loop runs coroutines only while no handler blocks it.
LoopFree == extraction.sync = "none"

\* The response of a handler that awaited the extractor: cause is the
\* failure that ended the request, extracts the extractor calls it made.
Reply(endpoint, status, cause, extracts) ==
    resp' = [endpoint |-> endpoint, status |-> status, cause |-> cause,
             extracts |-> extracts]

\* GET /api/info, a step of its handler on a cache miss.  Each attempt runs
\* _extract_info_timeout with the options, and with flat extraction when
\* that raised: the call waits for the semaphore, then awaits the thread
\* under wait_for, whose timeout raises 504 and leaves the thread running.
\* After the last attempt the answer is 403 for a restricted platform
\* without cookies and 502 otherwise; between attempts the handler sleeps.
api_info ==
    /\ svc = "main_api"
    /\ LoopFree
    /\ LET r == extraction.info
           Stay(req) == /\ extraction' = [extraction EXCEPT !.info = req]
                        /\ UNCHANGED resp
           Done(status, cause, ex) ==
                /\ extraction' = [ex EXCEPT !.info = NoRequest]
                /\ Reply("api_info", status, cause, r.extracts)
       IN
       \/ /\ r.pc = "none"
          /\ \E platform \in {"youtube", "instagram"}, has_cookies \in BOOLEAN :
                Stay([pc |-> "waiting", platform |-> platform,
                      has_cookies |-> has_cookies, attempt |-> 1,
                      fallback |-> FALSE, extracts |-> 0])
       \/ /\ r.pc = "waiting"
          /\ Holders < SemaphoreSlots
          /\ Stay([r EXCEPT !.pc = "extracting", !.extracts = @ + 1])
       \/ /\ r.pc = "extracting"
          /\ \E out \in {"ok", "none", "raise", "Timeout"} :
                LET ex == IF out = "Timeout"
                          THEN [extraction EXCEPT !.zombies = @ + 1]
                          ELSE extraction
                    last == r.attempt = max_attempts(r.platform, r.has_cookies)
                IN
                /\ out = "Timeout" => extraction.zombies < MaxZombies
                /\ IF out = "ok" THEN Done(200, "none", ex)
                   ELSE IF out = "none" THEN Done(502, "none", ex)
                   ELSE IF ~r.fallback
                   THEN /\ extraction' = [ex EXCEPT !.info =
                              [r EXCEPT !.pc = "waiting", !.fallback = TRUE]]
                        /\ UNCHANGED resp
                   ELSE IF last /\ r.platform # "youtube" /\ ~r.has_cookies
                   THEN Done(403, out, ex)
                   ELSE IF last THEN Done(502, out, ex)
                   ELSE /\ extraction' = [ex EXCEPT !.info =
                              [r EXCEPT !.pc = "sleeping"]]
                        /\ UNCHANGED resp
       \/ /\ r.pc = "sleeping"
          /\ Stay([r EXCEPT !.pc = "waiting", !.attempt = @ + 1,
                            !.fallback = FALSE])
    /\ UNCHANGED <<cacheVars, httpx, item, gen, deadGens, taskVars, ffmpeg>>

\* GET /info and GET /instant, a step of a handler on a cache miss:
\* _extract_async waits for the semaphore and awaits the thread, with no
\* deadline; an exception is answered 500, no info 502.
fetch_video_info ==
    /\ svc = "main_api"
    /\ LoopFree
    /\ \/ /\ extraction.waiting + extraction.running + extraction.hung < MaxFetchers
          /\ extraction' = [extraction EXCEPT !.waiting = @ + 1]
          /\ UNCHANGED resp
       \/ /\ extraction.waiting > 0
          /\ Holders < SemaphoreSlots
          /\ extraction' = [extraction EXCEPT !.waiting = @ - 1, !.running = @ + 1]
          /\ UNCHANGED resp
       \/ /\ extraction.running > 0
          /\ extraction' = [extraction EXCEPT !.running = @ - 1]
          /\ \E out \in {"ok", "none", "raise"} :
                Reply("info", IF out = "ok" THEN 200
                              ELSE IF out = "none" THEN 502 ELSE 500,
                      IF out = "raise" THEN out ELSE "none", 1)
    /\ UNCHANGED <<cacheVars, httpx, item, gen, deadGens, taskVars, ffmpeg>>

\* ydl.extract_info(url, download=False) as /api/stream, /api/redirect,
\* /api/download, /api/stream_mp3 and /api/stream_merge call it: in the
\* handler itself, on the event loop, outside the semaphore and with no
\* deadline.  The loop runs nothing else until the call returns.
extract_info_on_loop ==
    /\ svc = "main_api"
    /\ \/ /\ extraction.sync = "none"
          /\ extraction' = [extraction EXCEPT !.sync = "running"]
          /\ UNCHANGED resp
       \/ /\ extraction.sync = "running"
          /\ extraction' = [extraction EXCEPT !.sync = "none"]
          /\ \E out \in {"ok", "none", "raise"} :
                Reply("stream", IF out = "ok" THEN 200
                                ELSE IF out = "none" THEN 502 ELSE 500,
                      IF out = "raise" THEN out ELSE "none", 1)
    /\ UNCHANGED <<cacheVars, httpx, item, gen, deadGens, taskVars, ffmpeg>>

\* An extractor call that has no native timeout stops answering for good.
ExtractorHangs ==
    /\ svc = "main_api"
    /\ \/ /\ extraction.running > 0
          /\ extraction' = [extraction EXCEPT !.running = @ - 1, !.hung = @ + 1]
       \/ /\ extraction.sync = "running"
          /\ extraction' = [extraction EXCEPT !.sync = "hung"]
    /\ UNCHANGED <<cacheVars, resolveVars, taskVars, ffmpeg>>

\* A thread left behind by a timeout comes to its end.
ZombieEnds ==
    /\ extraction.zombies > 0
    /\ extraction' = [extraction EXCEPT !.zombies = @ - 1]
    /\ UNCHANGED <<cacheVars, resolveVars, taskVars, ffmpeg>>

NextExtract ==
    \/ api_info
    \/ fetch_video_info
    \/ extract_info_on_loop
    \/ ExtractorHangs
    \/ ZombieEnds
    \/ (\A t \in TaskIds : tasks[t] = NoTask) /\ flask_api_download
    \/ _download

SpecExtract == InitTasks /\ [][NextExtract]_vars

(***************************************************************************)
(* C13  Extraction cap.  At every moment at most 5 extractor invocations   *)
(* are executing in the main_api process, counting every endpoint that     *)
(* calls the extractor and the invocations whose awaiting request has      *)
(* already been answered with a timeout.                                   *)
(***************************************************************************)
AtMostFiveExtractions == Executing <= SemaphoreSlots

(***************************************************************************)
(* C14  Queueing with hard timeout.  A request that arrives while 5        *)
(* extractions are in progress waits, and is answered with a timeout when  *)
(* it gets no slot: no request waits for an extraction slot forever, which *)
(* it would when every slot is held by a call that never returns.          *)
(***************************************************************************)
NoEndlessQueueing ==
    (extraction.waiting > 0 \/ extraction.info.pc = "waiting") =>
        extraction.hung < SemaphoreSlots

(***************************************************************************)
(* C15  Enforced extraction deadline.  Every request that invokes the      *)
(* extractor is answered within a bounded deadline even when the extractor *)
(* call never returns: no request is left awaiting such a call.            *)
(***************************************************************************)
NoRequestAwaitsForever ==
    /\ extraction.hung = 0
    /\ extraction.sync # "hung"

(***************************************************************************)
(* C16  Typed error propagation.  An extractor timeout raised while a      *)
(* request is served reaches the client as HTTP 504: no handler swallows   *)
(* it or turns it into another status.                                     *)
(***************************************************************************)
TimeoutReachesClientAs504 ==
    (resp.endpoint = "api_info" /\ resp.cause = "Timeout") => resp.status = 504

\* 2 extractions in each of at most 3 attempts of api_info
MaxInfoExtractions == 6

\* 2 runs of extract_info, then the ladder, in _download
MaxTaskExtractions == 2 + FallbackStrategies

\* The extractor calls made so far by the requests under way.
InfoExtractions ==
    IF extraction.info.pc = "none" THEN 0 ELSE extraction.info.extracts

TaskExtractions(t) ==
    IF workers[t].pc \in {"extract", "fallback", "optimize"}
    THEN workers[t].extracts ELSE 0

LadderKeepsLastError ==
    [][\A t \in TaskIds :
        (/\ workers[t].pc = "fallback"
         /\ tasks'[t].status = "error"
         /\ workers[t].fallback_error # NoError) =>
            tasks'[t].error \in {workers[t].fallback_error,
                                 ErrorMsg("fallback", workers[t].try, "raise")}]_vars

(***************************************************************************)
(* Signed download links of main.py: /api/v2/sign and /dl.                 *)
(***************************************************************************)
\* SIGN_SECRET and SIGN_TTL_SECONDS, at their defaults
SECRET == "change-me"

TOKEN_TTL == 900

\* The bytes of a token, in runs: the JSON text of a payload, the byte "."
\* and a run of digest bytes (all of a digest, or what stands before and
\* after a "." among its bytes).  key and of tell a digest's key and message.
Run(kind, key, of) == [kind |-> kind, key |-> key, of |-> of]

\* Payloads with the expiry /api/v2/sign gives at time 0 and at time 150, and
\* the message that is no JSON text of a payload.
SamplePayloads ==
    [url : {Page}, format_id : {"best", "18"}, exp : {TOKEN_TTL, TOKEN_TTL + 150}]

NoPayload == [url |-> "", format_id |-> "", exp |-> 0]

\* hmac.new(key, msg, hashlib.sha256).digest(): 32 bytes, any of which may be
\* the byte "."; here the digests of the payloads for format "18" hold one.
Hmac(key, msg) ==
    LET of == IF Len(msg) = 1 /\ msg[1].kind = "json" THEN msg[1].of
              ELSE NoPayload
    IN  IF of.format_id = "18"
        THEN <<Run("digest-head", key, of), Run(".", "", NoPayload),
               Run("digest-tail", key, of)>>
        ELSE <<Run("digest", key, of)>>

\* _sign_payload(payload): base64 of msg + b"." + sig
_sign_payload(payload) ==
    LET msg == <<Run("json", "", payload)>> IN
    [base64 |-> TRUE, raw |-> msg \o <<Run(".", "", NoPayload)>> \o Hmac(SECRET, msg)]

\* _verify_token without the comparison of the signature
_verify_token_unsigned(token, time) ==
    LET raw == token.raw
        dots == { i \in 1..Len(raw) : raw[i].kind = "." }
        last == CHOOSE i \in dots : \A j \in dots : j <= i
        msg == SubSeq(raw, 1, last - 1)
    IN  IF ~token.base64 \/ dots = {} THEN [status |-> 500, payload |-> NoPayload]
        ELSE IF ~(Len(msg) = 1 /\ msg[1].kind = "json")
        THEN [status |-> 500, payload |-> NoPayload]
        ELSE IF msg[1].of.exp < time
        THEN [status |-> 410, payload |-> NoPayload]
        ELSE [status |-> 200, payload |-> msg[1].of]

\* _verify_token(token) at time.time() = time: the decoded bytes are split
\* at their last ".", the signature is compared with the digest of the
\* message (400), the message is parsed and its exp compared with the time
\* (410).  Bytes that are no base64, have no "." or are no JSON raise
\* another exception (500).
_verify_token(token, time) ==
    LET raw == token.raw
        dots == { i \in 1..Len(raw) : raw[i].kind = "." }
        last == CHOOSE i \in dots : \A j \in dots : j <= i
        msg == SubSeq(raw, 1, last - 1)
        sig == SubSeq(raw, last + 1, Len(raw))
    IN  IF ~token.base64 \/ dots = {} THEN [status |-> 500, payload |-> NoPayload]
        ELSE IF sig # Hmac(SECRET, msg)
        THEN [status |-> 400, payload |-> NoPayload]
        ELSE IF ~(Len(msg) = 1 /\ msg[1].kind = "json")
        THEN [status |-> 500, payload |-> NoPayload]
        ELSE IF msg[1].of.exp < time
        THEN [status |-> 410, payload |-> NoPayload]
        ELSE [status |-> 200, payload |-> msg[1].of]

\* The tokens a client presents: those the service signed, the same with
\* the payload of another, a signature under a key of the client's, a token
\* cut before its signature, and text that is no base64.
PresentedTokens ==
    LET Token(p, sig) == [base64 |-> TRUE,
                          raw |-> <<Run("json", "", p), Run(".", "", NoPayload)>> \o sig]
    IN  { _sign_payload(p) : p \in SamplePayloads }
        \cup { Token(p, Hmac(SECRET, <<Run("json", "", q)>>)) :
                  p \in SamplePayloads, q \in SamplePayloads }
        \cup { Token(p, Hmac("guess", <<Run("json", "", p)>>)) : p \in SamplePayloads }
        \cup { [base64 |-> TRUE, raw |-> <<Run("json", "", p)>>] : p \in SamplePayloads }
        \cup { [base64 |-> FALSE, raw |-> <<>>] }

\* GET /api/v2/sign
api_v2_sign ==
    /\ svc = "main"
    /\ \E format_id \in {"best", "18"} :
        resp' = [endpoint |-> "sign", status |-> 200,
                 token |-> _sign_payload([url |-> Page, format_id |-> format_id,
                                          exp |-> now + TOKEN_TTL])]
    /\ UNCHANGED <<cacheVars, httpx, item, gen, deadGens, taskVars, ffmpeg, extraction>>

\* GET /dl: the token is verified, then unified_stream resolves and streams
\* what the payload names.  A token the service signed is one it gave out:
\* its exp is at most TOKEN_TTL ahead.
api_v2_dl ==
    /\ svc = "main"
    /\ \E token \in PresentedTokens :
        LET v == _verify_token(token, now) IN
        /\ \A p \in SamplePayloads :
              token = _sign_payload(p) => p.exp <= now + TOKEN_TTL
        /\ resp' = [endpoint |-> "dl", status |-> v.status, token |-> token,
                    time |-> now, unified_stream |-> v.status = 200,
                    payload |-> v.payload]
    /\ UNCHANGED <<cacheVars, httpx, item, gen, deadGens, taskVars, ffmpeg, extraction>>

NextSign ==
    \/ Tick
    \/ api_v2_sign
    \/ api_v2_dl

SpecSign == InitPlatform /\ [][NextSign]_vars

RedisBreaks ==
    /\ svc = "main_api"
    /\ redisCfg
    /\ ~redisFaulty
    /\ ticks = 0
    /\ redisFaulty' = TRUE
    /\ UNCHANGED <<svc, now, ticks, redisCfg, redisStore, infoCache,
                   format_cache, lastPut, lastGet>>
    /\ UNCHANGED besideCache

\* Reads and writes of the cache once the server has started to fail.
NextFailingRedis ==
    \/ ticks = 0 /\ Tick
    \/ RedisBreaks
    \/ redisFaulty /\ CacheSet
    \/ redisFaulty /\ CacheGet

SpecFailingRedis == InitCache /\ [][NextFailingRedis]_vars

(***************************************************************************)
(* C21  Transparent cache fallback.  Whatever single Redis reads or writes *)
(* fail, _cache_get returns what it would return if Redis never failed:    *)
(* the value of the most recent unexpired _cache_set for the key, never an *)
(* older value, and absent when there is none.                             *)
(***************************************************************************)
FallbackTransparent ==
    lastGet.cache = "api" =>
        LET p == lastGet.put IN
        /\ (p.present /\ lastGet.at < p.at + p.ttl) =>
              (lastGet.result.hit /\ lastGet.result.value = p.value)
        /\ (~p.present \/ lastGet.at > p.at + p.ttl) => ~lastGet.result.hit
        /\ lastGet.result.hit => lastGet.result.value = p.value

(***************************************************************************)
(* C22  Single-writer task record.  The record of a Flask task is written  *)
(* only by the task's own worker; the thread that simulates the preparing  *)
(* progress never writes to a task whose status is no longer 'preparing',  *)
(* however its steps interleave with the worker's.                         *)
(***************************************************************************)
SimulatorWritesOnlyPreparing ==
    [][\A t \in TaskIds :
        (/\ svc = "flask"
         /\ workers[t].pc \notin {"none", "done"}
         /\ workers'[t].pc \notin {"none", "done"}
         /\ workers[t].preparing_thread = "checked"
         /\ workers'[t].preparing_thread = "loop") =>
            tasks[t].status = "preparing"]_vars

(***************************************************************************)
(* The format classifiers: analyze_youtube and process_formats of app.py,  *)
(* _build_formats and the choice for "best" of main_api.py.                *)
(***************************************************************************)
\* Raw candidates of the extractor: progressive mp4 of three heights, a
\* 720p stream whose audio codec is missing, a progressive webm, a
\* segmented stream, a 60 fps video-only stream and an audio-only stream.
RawFormats == {
    [format_id |-> "18", vcodec |-> "avc1.42001E", acodec |-> "mp4a.40.2",
     ext |-> "mp4", protocol |-> "https", height |-> 360, fps |-> 30,
     tbr |-> 500, abr |-> 0, filesize |-> 0],
    [format_id |-> "22", vcodec |-> "avc1.64001F", acodec |-> "mp4a.40.2",
     ext |-> "mp4", protocol |-> "https", height |-> 720, fps |-> 30,
     tbr |-> 1500, abr |-> 0, filesize |-> 0],
    [format_id |-> "37", vcodec |-> "avc1.640028", acodec |-> "mp4a.40.2",
     ext |-> "mp4", protocol |-> "https", height |-> 1080, fps |-> 30,
     tbr |-> 4000, abr |-> 0, filesize |-> 0],
    [format_id |-> "136", vcodec |-> "avc1.64001F", acodec |-> "",
     ext |-> "mp4", protocol |-> "https", height |-> 720, fps |-> 30,
     tbr |-> 2000, abr |-> 0, filesize |-> 0],
    [format_id |-> "43", vcodec |-> "vp8", acodec |-> "vorbis",
     ext |-> "webm", protocol |-> "https", height |-> 360, fps |-> 30,
     tbr |-> 600, abr |-> 0, filesize |-> 0],
    [format_id |-> "95", vcodec |-> "avc1.64001F", acodec |-> "mp4a.40.2",
     ext |-> "mp4", protocol |-> "m3u8_native", height |-> 720, fps |-> 30,
     tbr |-> 1400, abr |-> 0, filesize |-> 0],
    [format_id |-> "298", vcodec |-> "avc1.64001F", acodec |-> "none",
     ext |-> "mp4", protocol |-> "https", height |-> 720, fps |-> 60,
     tbr |-> 1200, abr |-> 0, filesize |-> 0],
    [format_id |-> "140", vcodec |-> "none", acodec |-> "mp4a.40.2",
     ext |-> "m4a", protocol |-> "https", height |-> 0, fps |-> 0,
     tbr |-> 128, abr |-> 128, filesize |-> 0] }

\* vcodec.startswith('avc') or 'h264' in vcodec, on the codecs that occur
IsAvc(vcodec) ==
    vcodec \in {"avc1.42001E", "avc1.64001F", "avc1.640028", "h264"}

\* The score of _best_video_per_height
Score(f) ==
    (IF IsAvc(Lower(f.vcodec)) THEN 1000 ELSE 0) + f.tbr + f.fps * 2
    + (IF Lower(f.ext) = "mp4" THEN 50 ELSE 0)

\* The format loop of analyze_youtube: segmented streams and streams without
\* height are skipped, then every stream whose key height_fps_ext was seen
\* before; what is left is tagged is_progressive.  (No format here has a
\* format_note, so PREMIUM_PATTERN matches none.)
analyze_youtube ==
    /\ svc = "flask"
    /\ LET source_formats == item.formats
           n == Len(source_formats)
           passes(i) == /\ ~IsSegmented(Lower(source_formats[i].protocol))
                        /\ source_formats[i].height > 0
           key(i) == <<source_formats[i].height, source_formats[i].fps,
                       source_formats[i].ext>>
           kept == { i \in 1..n :
                       /\ passes(i)
                       /\ \A j \in 1..(i - 1) : passes(j) => key(j) # key(i) }
           at(k) == CHOOSE i \in kept :
                       Cardinality({ j \in kept : j < i }) = k - 1
           tag(f) ==
               [format_id |-> f.format_id, ext |-> f.ext, fps |-> f.fps,
                tbr |-> f.tbr, height |-> f.height, vcodec |-> f.vcodec,
                acodec |-> f.acodec, protocol |-> f.protocol,
                is_progressive |->
                    /\ Truthy(f.vcodec) /\ f.vcodec # "none"
                    /\ Truthy(f.acodec) /\ f.acodec # "none"
                    /\ ~IsSegmented(Lower(f.protocol))]
       IN  resp' = [endpoint |-> "analyze_youtube",
                    formats |-> [k \in 1..Cardinality(kept) |->
                                    tag(source_formats[at(k)])]]
    /\ UNCHANGED <<cacheVars, httpx, item, gen, deadGens, taskVars, ffmpeg, extraction>>

\* process_formats: _best_video_per_height(formats), for every height the
\* first stream of the greatest score, highest first.
_best_video_per_height ==
    /\ svc = "flask"
    /\ LET source_formats == item.formats
           n == Len(source_formats)
           heights == { source_formats[i].height : i \in 1..n } \ {0}
           best_by_h(h) ==
               CHOOSE i \in 1..n :
                   /\ source_formats[i].height = h
                   /\ \A j \in 1..n : source_formats[j].height = h =>
                         \/ Score(source_formats[j]) < Score(source_formats[i])
                         \/ Score(source_formats[j]) = Score(source_formats[i])
                            /\ i <= j
           at(k) == CHOOSE h \in heights :
                       Cardinality({ g \in heights : g > h }) = k - 1
       IN  resp' = [endpoint |-> "process_formats",
                    formats |-> [k \in 1..Cardinality(heights) |->
                                    source_formats[best_by_h(at(k))]]]
    /\ UNCHANGED <<cacheVars, httpx, item, gen, deadGens, taskVars, ffmpeg, extraction>>

\* _build_formats: _dedupe_best_per_height_mp4(fmts), for every height one
\* mp4 stream of an AVC (or no) video codec; a later stream replaces the
\* one held when its tbr or its fps is greater.  Highest first.
_dedupe_best_per_height_mp4 ==
    /\ svc = "main_api"
    /\ LET formats == item.formats
           n == Len(formats)
           heights == { formats[i].height : i \in 1..n }
           admitted(f) ==
               /\ Lower(f.ext) = "mp4"
               /\ f.height > 0
               /\ IsAvc(Lower(f.vcodec)) \/ Lower(f.vcodec) \in {"none", "h264"}
           best[i \in 0..n] ==
               IF i = 0 THEN [h \in heights |-> 0]
               ELSE LET f == formats[i]
                        cur == best[i - 1][f.height]
                    IN  IF ~admitted(f) THEN best[i - 1]
                        ELSE IF cur = 0
                        THEN [best[i - 1] EXCEPT ![f.height] = i]
                        ELSE IF f.tbr > formats[cur].tbr \/ f.fps > formats[cur].fps
                        THEN [best[i - 1] EXCEPT ![f.height] = i]
                        ELSE best[i - 1]
           keys == { h \in heights : best[n][h] # 0 }
           at(k) == CHOOSE h \in keys :
                       Cardinality({ g \in keys : g > h }) = k - 1
       IN  resp' = [endpoint |-> "_build_formats",
                    formats |-> [k \in 1..Cardinality(keys) |->
                                    formats[best[n][at(k)]]]]
    /\ UNCHANGED <<cacheVars, httpx, item, gen, deadGens, taskVars, ffmpeg, extraction>>

\* _resolve_direct_url(info, "best") on a freshly extracted item, and the
\* formats _pick_fast_best_format_id takes for progressive.
ResolveBest ==
    /\ svc = "main_api"
    /\ resp' = [endpoint |-> "resolve_best",
                url |-> _resolve_direct_url(Info(gen), "best"),
                progressive |-> [i \in 1..Len(item.formats) |->
                                    _is_progressive_mp4(item.formats[i])]]
    /\ UNCHANGED <<cacheVars, httpx, item, gen, deadGens, taskVars, ffmpeg, extraction>>

\* Either service with an item of one to three different raw formats.
InitClassify ==
    /\ InitCacheIdle
    /\ redisCfg = FALSE
    /\ svc \in {"main_api", "flask"}
    /\ httpx = TRUE
    /\ \E a \in RawFormats, b \in RawFormats, c \in RawFormats :
          \E fs \in {<<a>>, <<a, b>>, <<a, b, c>>} :
              /\ \A i \in 1..Len(fs), j \in 1..Len(fs) : i # j => fs[i] # fs[j]
              /\ item = [id |-> "v1", formats |-> fs, top |-> 0]
    /\ gen = 1
    /\ deadGens = {}
    /\ resp = NoResp
    /\ tasks = [t \in TaskIds |-> NoTask]
    /\ workers = [t \in TaskIds |-> NoWorker]
    /\ last_update = [t \in TaskIds |-> 0]
    /\ ffmpeg = NoStream
    /\ extraction = NoExtraction

NextClassify ==
    \/ analyze_youtube
    \/ _best_video_per_height
    \/ _dedupe_best_per_height_mp4
    \/ ResolveBest

SpecClassify == InitClassify /\ [][NextClassify]_vars

(***************************************************************************)
(* C23  Progressive rule.  A format is classified progressive exactly when *)
(* its audio codec and its video codec are both non-empty and not "none",  *)
(* its container is mp4 and its protocol is not a segmented manifest.      *)
(***************************************************************************)
ProgressiveExactly ==
    LET Rule(f) == /\ HasBothCodecs(f)
                   /\ Lower(f.ext) = "mp4"
                   /\ ~IsSegmented(Lower(f.protocol))
    IN  /\ resp.endpoint = "analyze_youtube" =>
              \A k \in 1..Len(resp.formats) :
                  resp.formats[k].is_progressive <=> Rule(resp.formats[k])
        /\ resp.endpoint = "resolve_best" =>
              \A i \in 1..Len(item.formats) :
                  resp.progressive[i] <=> Rule(item.formats[i])

(***************************************************************************)
(* C24  Classifier deduplication.  The classified output holds at most one *)
(* format per (height, frame rate, container), and the format kept for a   *)
(* triple has the highest selection score among the input formats of that  *)
(* triple (segmented streams, which no classifier lists, aside).           *)
(***************************************************************************)
OnePerTripleHighestScore ==
    resp.endpoint \in {"analyze_youtube", "process_formats", "_build_formats"} =>
        LET out == resp.formats
            Triple(f) == <<f.height, f.fps, Lower(f.ext)>>
        IN  /\ \A i \in 1..Len(out), j \in 1..Len(out) :
                  i # j => Triple(out[i]) # Triple(out[j])
            /\ \A i \in 1..Len(out), k \in 1..Len(item.formats) :
                  (/\ Triple(item.formats[k]) = Triple(out[i])
                   /\ ~IsSegmented(Lower(item.formats[k].protocol))) =>
                      Score(item.formats[k]) <= Score(out[i])

(***************************************************************************)
(* C25  Selection for "best".  For an item with a progressive format,      *)
(* resolving "best" returns the URL of a progressive format of the item    *)
(* that no other progressive format of the item outscores.                 *)
(***************************************************************************)
BestIsHighestScoring ==
    LET fs == item.formats
        progressive == { i \in 1..Len(fs) :
                            /\ HasBothCodecs(fs[i])
                            /\ Lower(fs[i].ext) = "mp4"
                            /\ ~IsSegmented(Lower(fs[i].protocol)) }
    IN  (resp.endpoint = "resolve_best" /\ progressive # {}) =>
            \E k \in progressive :
                /\ resp.url = UrlOf(fs[k].format_id, gen)
                /\ \A i \in progressive : Score(fs[i]) <= Score(fs[k])

(***************************************************************************)
(* network_retry_wrapper of app.py.                                        *)
(***************************************************************************)
\* The largest max_retries a caller passes.
MaxRetries == 3

\* The keyword test of the mutant: every error counts as a network error.
IsNetworkErrorAlways(msg) == TRUE

\* any(keyword in str(e).lower() for keyword in ['getaddrinfo failed',
\* 'network', 'dns', 'timeout', 'connection']), on the messages that occur
IsNetworkError(msg) ==
    msg \in {"Network is unreachable", "Read timeout", "DNS lookup failed"}

\* A caller such as debug_formats enters network_retry_wrapper(func,
\* max_retries, delay).  log holds what each call of func did.
debug_formats ==
    /\ svc = "flask"
    /\ \E max_retries \in 0..MaxRetries, delay \in {1, 2} :
        resp' = [endpoint |-> "network_retry_wrapper", pc |-> "loop",
                 max_retries |-> max_retries, delay |-> delay, attempt |-> 0,
                 log |-> <<>>, slept |-> <<>>, raised |-> 0]
    /\ UNCHANGED <<cacheVars, httpx, item, gen, deadGens, taskVars, ffmpeg, extraction>>

\* One round of the loop of network_retry_wrapper: past the last attempt it
\* returns None; otherwise func is called and its result returned, or its
\* exception is either slept on (a network error before the last attempt)
\* or raised.  raised is the number of the call whose exception leaves.
network_retry_wrapper ==
    /\ svc = "flask"
    /\ resp.endpoint = "network_retry_wrapper"
    /\ resp.pc = "loop"
    /\ IF resp.attempt >= resp.max_retries
       THEN resp' = [resp EXCEPT !.pc = "none"]
       ELSE \E e \in {"", "Network is unreachable", "Read timeout",
                      "DNS lookup failed", "Video unavailable"} :
            LET pow[i \in 0..(MaxRetries + 1)] ==
                    IF i = 0 THEN 1 ELSE 2 * pow[i - 1]
                called == [resp EXCEPT !.log = Append(@, e)]
            IN  IF e = "" THEN resp' = [called EXCEPT !.pc = "returned"]
                ELSE IF /\ IsNetworkError(e)
                        /\ resp.attempt < resp.max_retries - 1
                THEN resp' = [called EXCEPT
                        !.slept = Append(@, resp.delay * pow[resp.attempt]),
                        !.attempt = @ + 1]
                ELSE resp' = [called EXCEPT !.pc = "raised",
                                            !.raised = Len(called.log)]
    /\ UNCHANGED <<cacheVars, httpx, item, gen, deadGens, taskVars, ffmpeg, extraction>>

NextRetry ==
    \/ debug_formats
    \/ network_retry_wrapper

SpecRetry == InitTasks /\ [][NextRetry]_vars

(***************************************************************************)
(* C26  network_retry_wrapper calls func at most max_retries times and     *)
(* returns the first successful result; it tries again only after an error *)
(* with a network keyword, having waited delay * 2^attempt; an error       *)
(* without a keyword is raised at once, and so is the error of the         *)
(* max_retries-th call.                                                    *)
(***************************************************************************)
RetriesOnlyNetworkErrors ==
    resp.endpoint = "network_retry_wrapper" =>
        LET calls == Len(resp.log)
            keyword(i) == resp.log[i] \in {"Network is unreachable", "Read timeout", "DNS lookup failed"}
            pow[i \in 0..(MaxRetries + 1)] == IF i = 0 THEN 1 ELSE 2 * pow[i - 1]
        IN  /\ calls <= resp.max_retries
            /\ \A i \in 1..(calls - 1) : keyword(i)
            /\ Len(resp.slept) = (IF resp.pc = "loop" THEN calls
                                  ELSE IF calls = 0 THEN 0 ELSE calls - 1)
            /\ \A i \in 1..Len(resp.slept) : resp.slept[i] = resp.delay * pow[i - 1]
            /\ resp.pc = "loop" => \A i \in 1..calls : keyword(i)
            /\ resp.pc = "returned" => resp.log[calls] = ""
            /\ resp.pc = "raised" =>
                  /\ resp.raised = calls
                  /\ resp.log[calls] # ""
                  /\ keyword(calls) => calls = resp.max_retries
            /\ resp.pc = "none" => calls = 0 /\ resp.max_retries = 0

RetriesOnlyNetworkErrorsWitness ==
    /\ resp.endpoint = "network_retry_wrapper"
    /\ resp.pc = "raised"
    /\ resp.max_retries = 3
    /\ resp.delay = 2
    /\ resp.log = <<"Read timeout", "Network is unreachable", "Read timeout">>
    /\ resp.slept = <<2, 4>>

(***************************************************************************)
(* C27  Token round trip.  A token produced by _sign_payload is accepted   *)
(* by _verify_token and yields the payload that was signed at every time   *)
(* up to its exp, whatever bytes the HMAC digest holds.                    *)
(***************************************************************************)
SignedTokenAccepted ==
    resp.endpoint = "dl" =>
        \A p \in SamplePayloads :
            (resp.token = _sign_payload(p) /\ resp.time <= p.exp) =>
                /\ resp.status = 200
                /\ resp.payload = p

(***************************************************************************)
(* C28  Task termination.  In the Flask service, when the _download thread *)
(* of a task ends, the task has status finished or error: whatever the     *)
(* extractor did, and also when cleanup_old_tasks removes records while    *)
(* the thread runs.                                                        *)
(***************************************************************************)
WorkerLeavesFinishedOrError ==
    [][\A t \in TaskIds :
        (/\ svc = "flask"
         /\ workers[t].pc \notin {"none", "done"}
         /\ workers'[t].pc \in {"none", "done"}) =>
            tasks'[t].status \in {"finished", "error"}]_vars

(***************************************************************************)
(* GET /api/progress-stream/<task_id> of app.py.                           *)
(***************************************************************************)
\* api_progress_stream(task_id): the response starts its generator.  One
\* stream is followed at a time.
api_progress_stream ==
    /\ svc = "flask"
    /\ ~(resp.endpoint = "progress_stream" /\ resp.pc = "polling")
    /\ \E task_id \in TaskIds :
        resp' = [endpoint |-> "progress_stream", task_id |-> task_id,
                 pc |-> "polling", last_sent |-> "nothing"]
    /\ UNCHANGED <<cacheVars, httpx, item, gen, deadGens, taskVars, ffmpeg, extraction>>

\* One round of event_stream(): tasks.get(task_id, {}) is read, its status
\* (None without a record) is sent when it differs from what was sent
\* last, and the loop ends on 'finished' or 'error'; otherwise it sleeps
\* and goes round again.
event_stream ==
    /\ svc = "flask"
    /\ resp.endpoint = "progress_stream"
    /\ resp.pc = "polling"
    /\ LET task == tasks[resp.task_id]
           status == IF task = NoTask THEN "None" ELSE task.status
       IN  resp' = [resp EXCEPT
                !.last_sent = status,
                !.pc = IF status \in {"finished", "error"} THEN "stopped"
                       ELSE "polling"]
    /\ UNCHANGED <<cacheVars, httpx, item, gen, deadGens, taskVars, ffmpeg, extraction>>

\* The Flask service with a progress stream: a download, its thread, the
\* clean-up thread and the stream's rounds.
NextStream ==
    \/ /\ ~(resp.endpoint = "progress_stream" /\ resp.pc = "polling")
       /\ \A t \in TaskIds : tasks[t] = NoTask
       /\ OneDownloadThread
       /\ flask_api_download
    \/ _download
    \/ cleanup_old_tasks
    \/ api_progress_stream
    \/ event_stream

\* The generator and the download thread are scheduled again and again.
SpecStream ==
    /\ InitTasks
    /\ [][NextStream]_vars
    /\ WF_vars(event_stream)
    /\ WF_vars(_download)

(***************************************************************************)
(* C29  Progress stream termination.  The generator of                     *)
(* /api/progress-stream/<task_id> eventually stops for every task_id, also *)
(* for an id that never existed and for one whose record cleanup_old_tasks *)
(* removed before it reached finished or error.                            *)
(***************************************************************************)
ProgressStreamStops ==
    (resp.endpoint = "progress_stream" /\ resp.pc = "polling")
        ~> (resp.endpoint = "progress_stream" /\ resp.pc = "stopped")

(***************************************************************************)
(* POST /api/merge of main_api.py, in-process when Celery is not there.    *)
(***************************************************************************)
\* api_merge: 404 for a platform without a module; the Celery task's id
\* when Celery takes the job; otherwise task_id is
\* str(int(time.time() * 1000)), the reading of the clock: one id for each
\* reading, here the number of the reading.  The record is assigned and
\* _start_download_task added as a background task; the model follows the
\* background task added last.
api_merge ==
    /\ svc = "main_api"
    /\ ticks < MaxTasks
    /\ \E supported \in BOOLEAN, celery \in BOOLEAN, files \in 1..MaxFiles :
        LET task_id == ticks + 1 IN
        IF ~supported
        THEN /\ resp' = [endpoint |-> "merge", status |-> 404, task_id |-> 0]
             /\ UNCHANGED taskVars
        ELSE IF celery
        THEN /\ resp' = [endpoint |-> "merge", status |-> 200, task_id |-> 0]
             /\ UNCHANGED taskVars
        ELSE /\ tasks' = [tasks EXCEPT ![task_id] = [status |-> "queued"]]
             /\ last_update' = [last_update EXCEPT ![task_id] = now]
             /\ workers' = [workers EXCEPT ![task_id] =
                    [pc |-> "run", left |-> files, st |-> ""]]
             /\ resp' = [endpoint |-> "merge", status |-> 200,
                         task_id |-> task_id]
    /\ UNCHANGED besideTasks

NextMerge ==
    \/ Tick
    \/ api_merge
    \/ ProgressHookCalled
    \/ ProgressHookWrites
    \/ _start_download_task

SpecMerge == InitTasks /\ [][NextMerge]_vars

(***************************************************************************)
(* C30  Task id uniqueness.  A request that starts an in-process task      *)
(* never receives the task_id of a record that is still in the task map:   *)
(* the record it creates overwrites no other, also for two /api/merge      *)
(* requests accepted within the same reading of the clock.                 *)
(***************************************************************************)
NewTaskOverwritesNone ==
    [][\A t \in TaskIds :
        (/\ svc = "main_api"
         /\ tasks'[t] # tasks[t]
         /\ tasks'[t].status = "queued") =>
            tasks[t] = NoTask]_vars

====
